---- MODULE Spec2Model ----
(***************************************************************************)
(* Verification model of TLS_Analyzer: the feature pipeline                *)
(* (TLSDataProcessor.hpp), the trainer loop (trainCNN.cpp), the predictor  *)
(* (predictCNN.cpp) and the checkpoint persistence of SimpleCNN.hpp.       *)
(*                                                                         *)
(* Text is modelled as tuples of one-character strings so that splitting   *)
(* and std::stoi are computed, not assumed.  Floats are modelled in        *)
(* fixed point, in thousandths ("milli"): 1.0f is 1000.                    *)
(***************************************************************************)
EXTENDS Integers, Sequences, FiniteSets, TLC

\* ------------------------------------------------------------------------
\* Bounds of the model
\* ------------------------------------------------------------------------
MaxRows == 3
MaxSplitRows == 5
MaxTrain == 5
MaxVecLen == 2
MaxRecords == 3
MaxKernel == 5
MaxSequence == 8
MaxEpoch == 5
MaxForks == 4

\* ------------------------------------------------------------------------
\* Program constants
\* ------------------------------------------------------------------------
PACKET_FEATURES == 2
STATS_FEATURES == 6
INT_MAX == 2147483647
\* 0.2f is 13421773 * 2^-26 as an IEEE single
TEST_RATIO_NUM == 13421773
TEST_RATIO_DEN == 67108864

\* ------------------------------------------------------------------------
\* Text helpers
\* ------------------------------------------------------------------------
Min(a, b) == IF a < b THEN a ELSE b
Max(a, b) == IF a < b THEN b ELSE a

Digits == {"0", "1", "2", "3", "4", "5", "6", "7", "8", "9"}

DigitVal(c) ==
    CASE c = "0" -> 0 [] c = "1" -> 1 [] c = "2" -> 2 [] c = "3" -> 3
      [] c = "4" -> 4 [] c = "5" -> 5 [] c = "6" -> 6 [] c = "7" -> 7
      [] c = "8" -> 8 [] c = "9" -> 9

\* std::string::find(c): position of the first c (1-based), 0 for npos
RECURSIVE FindFrom(_, _, _)
FindFrom(s, c, i) ==
    IF i > Len(s) THEN 0
    ELSE IF s[i] = c THEN i
    ELSE FindFrom(s, c, i + 1)

Find(s, c) == FindFrom(s, c, 1)

Tail_(s, p) == SubSeq(s, p + 1, Len(s))

\* while (std::getline(stream, tok, d)): the pieces between delimiters; a
\* trailing delimiter yields no empty last piece, an empty stream no piece.
RECURSIVE GetlineAll(_, _)
GetlineAll(s, d) ==
    IF s = <<>> THEN <<>>
    ELSE LET p == Find(s, d)
         IN  IF p = 0 THEN <<s>>
             ELSE <<SubSeq(s, 1, p - 1)>> \o GetlineAll(Tail_(s, p), d)

\* the digits std::stoi consumes from position i on
RECURSIVE DigitRun(_, _)
DigitRun(s, i) ==
    IF i > Len(s) \/ s[i] \notin Digits THEN <<>>
    ELSE <<s[i]>> \o DigitRun(s, i + 1)

\* the value of a run of digits, or -1 when it exceeds INT_MAX
RECURSIVE DigitsValue(_, _)
DigitsValue(ds, acc) ==
    IF ds = <<>> THEN acc
    ELSE IF acc > (INT_MAX - DigitVal(Head(ds))) \div 10 THEN -1
    ELSE DigitsValue(Tail(ds), acc * 10 + DigitVal(Head(ds)))

RECURSIVE SkipSpace(_, _)
SkipSpace(s, i) ==
    IF i <= Len(s) /\ s[i] = " " THEN SkipSpace(s, i + 1) ELSE i

RECURSIVE StripZeros(_)
StripZeros(ds) ==
    IF ds # <<>> /\ Head(ds) = "0" THEN StripZeros(Tail(ds)) ELSE ds

\* the digits of -INT_MIN, the one magnitude above INT_MAX that fits
IntMinDigits == <<"2", "1", "4", "7", "4", "8", "3", "6", "4", "8">>

\* std::stoi(s): leading blanks, an optional sign, then the longest run of
\* digits; what follows the digits is ignored.  Throws (ok = FALSE) when
\* there is no digit or the value does not fit an int.
Stoi(s) ==
    LET i0   == SkipSpace(s, 1)
        neg  == i0 <= Len(s) /\ s[i0] = "-"
        i1   == IF i0 <= Len(s) /\ s[i0] \in {"-", "+"} THEN i0 + 1 ELSE i0
        ds   == DigitRun(s, i1)
        mag  == DigitsValue(ds, 0)
    IN  IF ds = <<>> THEN [ok |-> FALSE, val |-> 0]
        ELSE IF mag >= 0 THEN [ok |-> TRUE, val |-> IF neg THEN 0 - mag ELSE mag]
        ELSE IF neg /\ StripZeros(ds) = IntMinDigits
             THEN [ok |-> TRUE, val |-> (0 - INT_MAX) - 1]
        ELSE [ok |-> FALSE, val |-> 0]

\* ------------------------------------------------------------------------
\* Fixed-point arithmetic
\* ------------------------------------------------------------------------
RECURSIVE FloorLog2(_)
FloorLog2(x) == IF x < 2 THEN 0 ELSE 1 + FloorLog2(x \div 2)

RECURSIVE Pow2(_)
Pow2(n) == IF n = 0 THEN 1 ELSE 2 * Pow2(n - 1)

\* log2(x) in 1/1024ths for x >= 1: exponent plus a linearly interpolated
\* mantissa
Log2Q(x) ==
    LET e == FloorLog2(x)
    IN  e * 1024 + ((x - Pow2(e)) * 1024) \div Pow2(e)

\* the integer square root, by bisection of lo..hi
RECURSIVE ISqrtIn(_, _, _)
ISqrtIn(v, lo, hi) ==
    IF lo >= hi THEN lo
    ELSE LET mid == (lo + hi + 1) \div 2
         IN  IF mid * mid <= v THEN ISqrtIn(v, mid, hi)
             ELSE ISqrtIn(v, lo, mid - 1)

\* 46340 is the largest root whose square fits 32 bits
ISqrt(v) == ISqrtIn(v, 0, Min(v, 46340))

RECURSIVE SumSeq(_)
SumSeq(s) == IF s = <<>> THEN 0 ELSE Head(s) + SumSeq(Tail(s))

RECURSIVE MaxSeq(_)
MaxSeq(s) == IF Len(s) = 1 THEN s[1] ELSE Max(Head(s), MaxSeq(Tail(s)))

RECURSIVE MinSeq(_)
MinSeq(s) == IF Len(s) = 1 THEN s[1] ELSE Min(Head(s), MinSeq(Tail(s)))

RECURSIVE CountEq(_, _)
CountEq(s, v) ==
    IF s = <<>> THEN 0
    ELSE (IF Head(s) = v THEN 1 ELSE 0) + CountEq(Tail(s), v)

RECURSIVE Zeros(_)
Zeros(n) == IF n <= 0 THEN <<>> ELSE <<0>> \o Zeros(n - 1)

\* ------------------------------------------------------------------------
\* Inputs of the feature pipeline
\* ------------------------------------------------------------------------
TokSmall == <<"1", "0", "_", "0">>
TokLarge == <<"2", "0", "0", "_", "1">>
TokBadSize == <<"x", "_", "0">>
TokBadDir == <<"7", "_", "y">>

TokPrefix == <<"1", "2", "x", "_", "1">>
TokNoDelim == <<"3">>

RECURSIVE JoinTokens(_)
JoinTokens(ts) ==
    IF ts = <<>> THEN <<>>
    ELSE IF Len(ts) = 1 THEN ts[1]
    ELSE ts[1] \o <<";">> \o JoinTokens(Tail(ts))

\* the line label,token;token;...
Line(label_str, tokens) == label_str \o <<",">> \o JoinTokens(tokens)

\* the lines a feature CSV of the model may hold: rows whose tokens are all
\* valid, rows with a bad token before, between or after valid ones, rows
\* without a valid record, a row with an empty feature field, a row whose
\* label is no number, and the empty line
LinePool ==
    {Line(<<"0">>, <<TokSmall, TokLarge>>),
     Line(<<"1">>, <<TokLarge, TokSmall>>),
     Line(<<"1">>, <<TokSmall, TokBadDir, TokLarge>>),
     Line(<<"0">>, <<TokBadSize, TokLarge>>),
     Line(<<"2">>, <<TokPrefix, TokNoDelim>>),
     Line(<<"0">>, <<TokBadSize>>),
     Line(<<"0">>, <<>>),
     Line(<<"x">>, <<TokSmall>>),
     <<>>}

\* the lines of the larger corpora used for the split: a two-record row, a
\* one-record row and a row without a valid record
SplitLinePool ==
    {<<"0", ",">> \o JoinTokens(<<TokSmall, TokLarge>>),
     <<"1", ",">> \o TokLarge,
     <<"1", ",">> \o TokBadSize}

\* ------------------------------------------------------------------------
\* TLSDataProcessor
\* ------------------------------------------------------------------------
VARIABLES dpc, csv, samples, num_labels, max_sequence_length,
          train_samples, test_samples

dataVars == <<dpc, csv, samples, num_labels, max_sequence_length,
              train_samples, test_samples>>

\* log(size + 1) / log(1501) clamped to [0, 1], in thousandths.  For
\* size < 0 the float quotient is -inf or NaN and the clamp
\* min(1, max(0, .)) returns 0; from 1500 on the quotient is at least 1.
LogNorm(size) ==
    IF size < 0 THEN 0
    ELSE IF size >= 1500 THEN 1000
    ELSE Min(1000, Max(0, (1000 * Log2Q(size + 1)) \div Log2Q(1501)))

\* the six statistics appended to a sample that has at least one record
AddStatisticalFeatures(features, sizes, directions) ==
    IF sizes = <<>> THEN features
    ELSE LET n        == Len(sizes)
             avg_size == SumSeq(sizes) \div n
             max_size == MaxSeq(sizes)
             min_size == MinSeq(sizes)
             variance == SumSeq([i \in 1..n |->
                                   (sizes[i] - avg_size) * (sizes[i] - avg_size)])
             std_dev  == ISqrt(variance \div n)
             outgoing_ratio == (1000 * CountEq(directions, 1000)) \div n
             total_packets  == (1000 * Log2Q(n + 1)) \div Log2Q(101)
         IN  features \o <<avg_size, max_size, min_size, std_dev,
                           outgoing_ratio, total_packets>>

\* a token whose direction fails to parse leaves its size behind
ParsePacket_PushEarly(packet_info, acc) ==
    LET delim_pos == Find(packet_info, "_")
        size      == Stoi(SubSeq(packet_info, 1, delim_pos - 1))
        direction == Stoi(Tail_(packet_info, delim_pos))
    IN  IF delim_pos = 0 \/ ~size.ok THEN acc
        ELSE IF ~direction.ok
             THEN [acc EXCEPT !.features = @ \o <<LogNorm(size.val)>>]
        ELSE [features   |-> acc.features
                             \o <<LogNorm(size.val), 1000 * direction.val>>,
              sizes      |-> Append(acc.sizes, LogNorm(size.val)),
              directions |-> Append(acc.directions, 1000 * direction.val)]

\* one iteration of the token loop of parse_packet_features: a token
\* without '_' is ignored, a std::stoi exception is caught and the loop
\* continues, otherwise the pair (normalized size, direction) is pushed
ParsePacket(packet_info, acc) ==
    LET delim_pos == Find(packet_info, "_")
        size      == Stoi(SubSeq(packet_info, 1, delim_pos - 1))
        direction == Stoi(Tail_(packet_info, delim_pos))
    IN  IF delim_pos = 0 THEN acc
        ELSE IF ~size.ok \/ ~direction.ok THEN acc
        ELSE [features   |-> acc.features
                             \o <<LogNorm(size.val), 1000 * direction.val>>,
              sizes      |-> Append(acc.sizes, LogNorm(size.val)),
              directions |-> Append(acc.directions, 1000 * direction.val)]

RECURSIVE ParseLoop(_, _)
ParseLoop(tokens, acc) ==
    IF tokens = <<>> THEN acc
    ELSE ParseLoop(Tail(tokens), ParsePacket(Head(tokens), acc))

\* parse_packet_features: the features of the sample and the number of
\* records it holds (current_length)
ParsePacketFeatures(feature_str) ==
    LET acc == ParseLoop(GetlineAll(feature_str, ";"),
                         [features |-> <<>>, sizes |-> <<>>, directions |-> <<>>])
    IN  [features |-> AddStatisticalFeatures(acc.features, acc.sizes,
                                             acc.directions),
         current_length |-> Len(acc.features) \div PACKET_FEATURES]

\* the two fields of a line: getline(iss, label_str, ',') succeeds on any
\* non-empty line, getline(iss, feature_str) fails when nothing is left
SplitLine(line) ==
    LET p == Find(line, ",")
    IN  IF p = 0 THEN [ok |-> FALSE, label_str |-> line, feature_str |-> <<>>]
        ELSE [ok          |-> Tail_(line, p) # <<>>,
              label_str   |-> SubSeq(line, 1, p - 1),
              feature_str |-> Tail_(line, p)]

DataInit ==
    /\ dpc = "open"
    /\ csv = <<>>
    /\ samples = <<>>
    /\ num_labels = 0
    /\ max_sequence_length = 0
    /\ train_samples = <<>>
    /\ test_samples = <<>>

\* load_data, the open: a file that cannot be opened is fatal
OpenCsv(opened) ==
    /\ dpc = "open"
    /\ dpc' = IF opened THEN "load" ELSE "aborted"
    /\ UNCHANGED <<csv, samples, num_labels, max_sequence_length,
                   train_samples, test_samples>>

\* load_data, one iteration of the line loop.  Each Sample carries the
\* number of the line it was built from (row), which the program does not
\* store; it tells equal Samples apart.
ReadLine(line, maxRows) ==
    /\ dpc = "load"
    /\ Len(csv) < maxRows
    /\ csv' = Append(csv, line)
    /\ LET f == SplitLine(line)
           label == Stoi(f.label_str)
           parsed == ParsePacketFeatures(f.feature_str)
       IN  IF line = <<>> \/ ~f.ok
           THEN UNCHANGED <<dpc, samples, num_labels, max_sequence_length>>
           ELSE IF ~label.ok
           THEN /\ dpc' = "aborted"
                /\ UNCHANGED <<samples, num_labels, max_sequence_length>>
           ELSE /\ num_labels' = Max(num_labels, label.val + 1)
                /\ max_sequence_length' =
                       Max(max_sequence_length, parsed.current_length)
                /\ samples' = Append(samples,
                                     [row      |-> Len(csv) + 1,
                                      label    |-> label.val,
                                      features |-> parsed.features])
                /\ UNCHANGED dpc
    /\ UNCHANGED <<train_samples, test_samples>>

\* load_data, the end of the file
EndOfFile ==
    /\ dpc = "load"
    /\ dpc' = "normalize"
    /\ UNCHANGED <<csv, samples, num_labels, max_sequence_length,
                   train_samples, test_samples>>

\* normalize_features on one sample
PadSample(features, maxLen) ==
    LET hasStats == Len(features) >= STATS_FEATURES
        stats_features ==
            IF hasStats
            THEN SubSeq(features, Len(features) - STATS_FEATURES + 1, Len(features))
            ELSE <<>>
        seqPart ==
            IF hasStats
            THEN SubSeq(features, 1, Len(features) - STATS_FEATURES)
            ELSE features
        current_length == Len(seqPart) \div PACKET_FEATURES
        padded ==
            IF current_length < maxLen
            THEN seqPart \o Zeros((maxLen - current_length) * PACKET_FEATURES)
            ELSE seqPart
    IN  padded \o stats_features

NormalizeFeatures ==
    /\ dpc = "normalize"
    /\ samples' = [i \in 1..Len(samples) |->
                     [samples[i] EXCEPT
                        !.features = PadSample(@, max_sequence_length)]]
    /\ dpc' = "split"
    /\ UNCHANGED <<csv, num_labels, max_sequence_length,
                   train_samples, test_samples>>

Permutations_(n) ==
    {p \in [1..n -> 1..n] : \A i, j \in 1..n : i # j => p[i] # p[j]}

\* static_cast<size_t>(samples.size() * test_ratio) with test_ratio = 0.2f;
\* the float product is within 2^-24 relative of the exact one, which
\* cannot move it across an integer for the sizes of the model
TestSize(n) == (n * TEST_RATIO_NUM) \div TEST_RATIO_DEN

\* both sizes are rounded down on their own, so a Sample can fall between
\* the two sets
SplitAt_FloorBoth(shuffled) ==
    LET test_size  == TestSize(Len(shuffled))
        train_size == (Len(shuffled) * 4) \div 5
    IN  [train |-> SubSeq(shuffled, 1, train_size),
         test  |-> SubSeq(shuffled, Len(shuffled) - test_size + 1, Len(shuffled))]

\* the assignment of the shuffled corpus to the two sets
SplitAt(shuffled) ==
    LET test_size  == TestSize(Len(shuffled))
        train_size == Len(shuffled) - test_size
    IN  [train |-> SubSeq(shuffled, 1, train_size),
         test  |-> SubSeq(shuffled, train_size + 1, Len(shuffled))]

\* shuffle_and_split: std::shuffle with a random_device seed may produce
\* any permutation
ShuffleAndSplit ==
    /\ dpc = "split"
    /\ \E p \in Permutations_(Len(samples)) :
         LET shuffled == [i \in 1..Len(samples) |-> samples[p[i]]]
         IN  /\ samples' = shuffled
             /\ train_samples' = SplitAt(shuffled).train
             /\ test_samples' = SplitAt(shuffled).test
    /\ dpc' = "done"
    /\ UNCHANGED <<csv, num_labels, max_sequence_length>>

\* get_feature_dim
GetFeatureDim == max_sequence_length * PACKET_FEATURES + STATS_FEATURES

\* ------------------------------------------------------------------------
\* SimpleCNN persistence
\* ------------------------------------------------------------------------
NumParams == 2

\* The parameters of a network (all weights and biases of conv1, fc1, fc2)
\* are one of NumParams distinguishable parameter vectors.
ParamVals == 1..NumParams

\* Contents a checkpoint path can hold: no file, a file truncated by an
\* open for writing, the 15 bytes save_model writes, or a file written by
\* something else (other dimensions, cut short, ...)
FileContents == {"absent", "empty", "tag", "foreign"}

\* SimpleCNN(input_dim, num_labels): the layers draw their weights from
\* random distributions, so params is any parameter vector
NewSimpleCNN(input_dim_, num_labels_, params) ==
    [input_dim |-> input_dim_, num_labels |-> num_labels_, params |-> params]

\* what save_model has put into the file when it returns: the constant
\* string "SimpleCNN_Model", whatever the network holds
SavedBytes(net) == "tag"

\* load_model(path, input_dim, num_labels) on a path holding content:
\* throws when the file cannot be opened, otherwise closes it unread and
\* returns a freshly constructed network (fresh: its random parameters)
LoadModel(content, input_dim_, num_labels_, fresh) ==
    IF content = "absent"
    THEN [threw |-> TRUE, net |-> NewSimpleCNN(input_dim_, num_labels_, fresh)]
    ELSE [threw |-> FALSE, net |-> NewSimpleCNN(input_dim_, num_labels_, fresh)]

\* ------------------------------------------------------------------------
\* The callers of load_model: trainCNN --continue and predictCNN
\* ------------------------------------------------------------------------
VARIABLES lpc, caller, lfile, ldims, lmodel, lthrew

loadVars == <<lpc, caller, lfile, ldims, lmodel, lthrew>>

DimPool == {[input_dim |-> 6, num_labels |-> 1],
            [input_dim |-> 8, num_labels |-> 2],
            [input_dim |-> 10, num_labels |-> 2],
            [input_dim |-> 10, num_labels |-> 3]}

\* a process about to start, the file at its MODEL_PATH in any condition
LoadInit ==
    /\ lpc = "start"
    /\ caller \in {"train", "predict"}
    /\ lfile \in FileContents
    /\ ldims \in DimPool
    /\ lmodel = "none"
    /\ lthrew = FALSE

\* trainCNN main up to the epoch loop: the model is constructed, and with
\* --continue replaced by the loaded one unless load_model throws
TrainerLoad ==
    /\ lpc = "start"
    /\ caller = "train"
    /\ \E cont \in BOOLEAN, fresh0, fresh1 \in ParamVals :
         LET model0 == NewSimpleCNN(ldims.input_dim, ldims.num_labels, fresh0)
             r == LoadModel(lfile, ldims.input_dim, ldims.num_labels, fresh1)
         IN  /\ lmodel' = IF cont /\ ~r.threw THEN r.net ELSE model0
             /\ lthrew' = (cont /\ r.threw)
    /\ lpc' = "training"
    /\ UNCHANGED <<caller, lfile, ldims>>

\* predictCNN main: load_model is called inside the try of main, whose
\* catch prints the error and returns 1
PredictorLoad ==
    /\ lpc = "start"
    /\ caller = "predict"
    /\ \E fresh \in ParamVals :
         LET r == LoadModel(lfile, ldims.input_dim, ldims.num_labels, fresh)
         IN  /\ lthrew' = r.threw
             /\ lmodel' = IF r.threw THEN "none" ELSE r.net
             /\ lpc' = IF r.threw THEN "exit1" ELSE "predicting"
    /\ UNCHANGED <<caller, lfile, ldims>>

\* the rest of predictCNN main: features, forward, report
PredictorFinish ==
    /\ lpc = "predicting"
    /\ lpc' = "exit0"
    /\ UNCHANGED <<caller, lfile, ldims, lmodel, lthrew>>

\* ------------------------------------------------------------------------
\* trainCNN: the epoch loop
\* ------------------------------------------------------------------------
\* learning rates in millionths
LEARNING_RATE == 1000
MIN_LEARNING_RATE == 10
EPOCHS == 300
EVAL_EVERY == 10
DECAY_EVERY == 50
max_patience == 30
\* accuracies in percent
TARGET_ACC == 85

\* the accuracies an evaluation may return, in percent; -1 stands for the
\* NaN of evaluate on an empty sample set
AccVals == {-1, 0, 50, 90}

IsNaN(a) == a < 0

\* a > b on floats: false when either side is NaN
GT(a, b) == ~IsNaN(a) /\ ~IsNaN(b) /\ a > b

VARIABLES tpc, model, epoch, learning_rate, best_test_acc, patience,
          train_acc, test_acc, ckpt, saved_model, rpc, seen, loaded

trainVars == <<tpc, model, epoch, learning_rate, best_test_acc, patience,
               train_acc, test_acc, ckpt, saved_model, rpc, seen, loaded>>


Running == {"epoch", "eval", "save_open", "save_close", "stop_check", "decay"}

\* trainCNN main at the top of the epoch loop; the checkpoint path holds
\* nothing or the checkpoint of an earlier run.  saved_model is not program
\* state: it records the parameters the network had at the last save_model.
TrainInit ==
    /\ tpc = "epoch"
    /\ model \in ParamVals
    /\ epoch = 0
    /\ learning_rate = LEARNING_RATE
    /\ best_test_acc = 0
    /\ patience = 0
    /\ train_acc = -1
    /\ test_acc = -1
    /\ ckpt \in {"absent", "tag"}
    /\ saved_model = 0
    /\ rpc = "idle"
    /\ seen = "none"
    /\ loaded = 0

\* lines 71-99: shuffle, the batch loop (train_batch moves the parameters
\* to some parameter vector), the epoch loss
TrainEpoch ==
    /\ tpc = "epoch"
    /\ model' \in ParamVals
    /\ tpc' = IF epoch % EVAL_EVERY = 0 \/ epoch = EPOCHS - 1
              THEN "eval" ELSE "decay"
    /\ UNCHANGED <<epoch, learning_rate, best_test_acc, patience,
                   train_acc, test_acc, ckpt, saved_model, rpc, seen, loaded>>

\* an evaluation that also accepts an equal accuracy as a new best
Improved_OrEqual(acc, best) == ~IsNaN(acc) /\ acc >= best

\* line 114: test_acc > best_test_acc
Improved(acc, best) == GT(acc, best)

\* lines 104-125: both evaluations, then the best/patience update; the
\* call of save_model in the improving branch is SaveOpen and SaveClose
Evaluate ==
    /\ tpc = "eval"
    /\ \E ta, te \in AccVals :
         /\ train_acc' = ta
         /\ test_acc' = te
         /\ IF Improved(te, best_test_acc)
            THEN /\ best_test_acc' = te
                 /\ patience' = 0
                 /\ tpc' = "save_open"
            ELSE /\ patience' = patience + 1
                 /\ tpc' = "stop_check"
                 /\ UNCHANGED best_test_acc
    /\ UNCHANGED <<model, epoch, learning_rate, ckpt, saved_model,
                   rpc, seen, loaded>>

\* save_model, std::ofstream ofs(path, binary): the open truncates the
\* file; when it fails save_model throws, which leaves the loop for the
\* catch of main (return 1)
SaveOpen(opened) ==
    /\ tpc = "save_open"
    /\ IF opened
       THEN /\ ckpt' = "empty"
            /\ tpc' = "save_close"
       ELSE /\ tpc' = "exit1"
            /\ UNCHANGED ckpt
    /\ UNCHANGED <<model, epoch, learning_rate, best_test_acc, patience,
                   train_acc, test_acc, saved_model, rpc, seen, loaded>>

\* save_model, write and close: the buffered bytes reach the file
SaveClose ==
    /\ tpc = "save_close"
    /\ ckpt' = SavedBytes(model)
    /\ saved_model' = model
    /\ tpc' = "stop_check"
    /\ UNCHANGED <<model, epoch, learning_rate, best_test_acc, patience,
                   train_acc, test_acc, rpc, seen, loaded>>

\* lines 128-140: the two early stops
StopCheck ==
    /\ tpc = "stop_check"
    /\ tpc' = IF patience >= max_patience THEN "summary"
              ELSE IF GT(test_acc, TARGET_ACC) /\ GT(train_acc, TARGET_ACC)
                   THEN "summary"
              ELSE "decay"
    /\ UNCHANGED <<model, epoch, learning_rate, best_test_acc, patience,
                   train_acc, test_acc, ckpt, saved_model, rpc, seen, loaded>>

\* learning_rate *= 0.8f, floored at 1e-5f
Decayed(lr) == Max((lr * 4) \div 5, MIN_LEARNING_RATE)

\* the test of line 144: a decay is due at the end of epochs 50, 100, ...
DecayDue_AtZero(e) == e % DECAY_EVERY = 0

DecayDue(e) == e > 0 /\ e % DECAY_EVERY = 0

\* the loop test of line 69
LoopTest_Inclusive(e) == e <= EPOCHS

LoopTest(e) == e < EPOCHS

\* lines 144-150 and the loop header: the decay, ++epoch, the loop test;
\* train_acc and test_acc are locals of the evaluation block
DecayAndNext ==
    /\ tpc = "decay"
    /\ learning_rate' = IF DecayDue(epoch)
                        THEN Decayed(learning_rate) ELSE learning_rate
    /\ epoch' = epoch + 1
    /\ tpc' = IF LoopTest(epoch + 1) THEN "epoch" ELSE "summary"
    /\ train_acc' = -1
    /\ test_acc' = -1
    /\ UNCHANGED <<model, best_test_acc, patience, ckpt, saved_model,
                   rpc, seen, loaded>>

\* lines 153-170: the training summary and the final evaluation
Summary ==
    /\ tpc = "summary"
    /\ tpc' = "exit0"
    /\ UNCHANGED <<model, epoch, learning_rate, best_test_acc, patience,
                   train_acc, test_acc, ckpt, saved_model, rpc, seen, loaded>>

\* another process calls load_model on the trainer's MODEL_PATH with the
\* trainer's dimensions while the trainer runs (a second trainCNN
\* --continue): it sees the file as it is at that instant
ReaderLoad ==
    /\ rpc = "idle"
    /\ seen' = ckpt
    /\ \E fresh \in ParamVals :
         LET r == LoadModel(ckpt, 10, 2, fresh)
         IN  loaded' = IF r.threw THEN 0 ELSE r.net.params
    /\ rpc' = "done"
    /\ UNCHANGED <<tpc, model, epoch, learning_rate, best_test_acc, patience,
                   train_acc, test_acc, ckpt, saved_model>>

\* ------------------------------------------------------------------------
\* One epoch, sample by sample: the batch loop, train_batch, evaluate
\* ------------------------------------------------------------------------
BATCH_SIZE == 4
\* probabilities in units of 1e-7, losses in thousandths
PROB_ONE == 10000000
PROB_FLOOR == 1
LOSS_CAP == 10000
BATCH_LOSS_LIMIT == 10000

\* output[label] as forward may return it: NaN (-1), 0, 0.5
ProbVals == {-1, 0, 5000000}

\* what forward does on one sample: it throws (line 334, or an allocation
\* fails), or it returns an output whose entry at the label is prob
ForwardOutcomes ==
    {[threw |-> TRUE, prob |-> 0]} \cup
    {[threw |-> FALSE, prob |-> p] : p \in ProbVals}

\* -std::log(prob) for prob in 1..PROB_ONE
NegLog(prob) == ((Log2Q(PROB_ONE) - Log2Q(prob)) * 693) \div 1024

\* std::max(a, b) and std::min(a, b) on floats return a when a is NaN
\* (the comparison with NaN is false)
ComputeLoss(prob) ==
    LET floored == IF IsNaN(prob) THEN prob ELSE Max(prob, PROB_FLOOR)
        loss_ == IF IsNaN(floored) THEN floored ELSE NegLog(floored)
    IN  IF IsNaN(loss_) THEN loss_ ELSE Min(loss_, LOSS_CAP)

\* updates counts the parameter updates applied so far and stands for the
\* weights and biases of the three layers: they change exactly when it
\* grows.  sample_threw tells whether the last pass of train_batch ended in
\* its catch.  ok_sum and ok_batches are not program state: they accumulate the
\* mean loss of every batch that trained at least one sample.
VARIABLES bpc, n_samples, batch_i, sample_j, updates, total_loss,
          valid_samples, loss, sample_threw, epoch_loss, num_batches, ok_sum, ok_batches,
          correct, eval_k

batchVars == <<bpc, n_samples, batch_i, sample_j, updates, total_loss,
               valid_samples, loss, sample_threw, epoch_loss, num_batches, ok_sum,
               ok_batches, correct, eval_k>>

\* trainCNN lines 71-81 with shuffled_samples of n samples
BatchInit(n) ==
    /\ bpc = "batch_loop"
    /\ n_samples = n
    /\ batch_i = 0
    /\ sample_j = 0
    /\ updates = 0
    /\ total_loss = 0
    /\ valid_samples = 0
    /\ loss = 0
    /\ sample_threw = FALSE
    /\ epoch_loss = 0
    /\ num_batches = 0
    /\ ok_sum = 0
    /\ ok_batches = 0
    /\ correct = 0
    /\ eval_k = 0

\* line 84
BatchEnd(i_) == Min(i_ + BATCH_SIZE, n_samples)

\* lines 81-87 and 366-367: the next batch is cut and train_batch entered
EnterTrainBatch ==
    /\ bpc = "batch_loop"
    /\ batch_i < n_samples
    /\ bpc' = "train_batch"
    /\ sample_j' = batch_i
    /\ total_loss' = 0
    /\ valid_samples' = 0
    /\ UNCHANGED <<n_samples, batch_i, updates, loss, sample_threw,
                   epoch_loss, num_batches, ok_sum, ok_batches, correct,
                   eval_k>>

\* lines 379-383: the test that skips a sample
SkipsSample_Never(l) == FALSE

SkipsSample(l) == IsNaN(l)

\* lines 369-417: one pass of the loop of train_batch
TrainSample(out) ==
    /\ bpc = "train_batch"
    /\ sample_j < BatchEnd(batch_i)
    /\ sample_j' = sample_j + 1
    /\ sample_threw' = out.threw
    /\ IF out.threw
       THEN UNCHANGED <<loss, total_loss, valid_samples, updates>>
       ELSE LET l == ComputeLoss(out.prob)
            IN  /\ loss' = l
                /\ IF SkipsSample(l)
                   THEN UNCHANGED <<total_loss, valid_samples, updates>>
                   ELSE /\ total_loss' = total_loss + l
                        /\ valid_samples' = valid_samples + 1
                        /\ updates' = updates + 1
    /\ UNCHANGED <<bpc, n_samples, batch_i, epoch_loss, num_batches,
                   ok_sum, ok_batches, correct, eval_k>>

\* line 419
BatchLoss == IF valid_samples > 0 THEN total_loss \div valid_samples ELSE 0

\* line 419 and trainCNN lines 87-94: train_batch returns, the batch loss
\* is accounted, i += BATCH_SIZE
LeaveTrainBatch ==
    /\ bpc = "train_batch"
    /\ sample_j = BatchEnd(batch_i)
    /\ IF ~IsNaN(BatchLoss) /\ BatchLoss < BATCH_LOSS_LIMIT
       THEN /\ epoch_loss' = epoch_loss + BatchLoss
            /\ num_batches' = num_batches + 1
       ELSE UNCHANGED <<epoch_loss, num_batches>>
    /\ IF valid_samples > 0
       THEN /\ ok_sum' = ok_sum + BatchLoss
            /\ ok_batches' = ok_batches + 1
       ELSE UNCHANGED <<ok_sum, ok_batches>>
    /\ batch_i' = batch_i + BATCH_SIZE
    /\ bpc' = "batch_loop"
    /\ UNCHANGED <<n_samples, sample_j, updates, total_loss, valid_samples,
                   loss, sample_threw, correct, eval_k>>

\* lines 96-104: the epoch loss, then evaluate is entered (epoch 0 is an
\* evaluation epoch)
EpochLoss ==
    /\ bpc = "batch_loop"
    /\ batch_i >= n_samples
    /\ epoch_loss' = IF num_batches > 0 THEN epoch_loss \div num_batches
                     ELSE epoch_loss
    /\ bpc' = "evaluate"
    /\ correct' = 0
    /\ eval_k' = 0
    /\ UNCHANGED <<n_samples, batch_i, sample_j, updates, total_loss,
                   valid_samples, loss, sample_threw, num_batches, ok_sum,
                   ok_batches>>

\* SimpleCNN.hpp lines 426-434: one pass of the loop of evaluate; nothing
\* between forward and the catch of main (trainCNN line 172) catches
EvaluateSample(threw, hit) ==
    /\ bpc = "evaluate"
    /\ eval_k < n_samples
    /\ IF threw
       THEN /\ bpc' = "exit1"
            /\ UNCHANGED <<correct, eval_k>>
       ELSE /\ correct' = correct + (IF hit THEN 1 ELSE 0)
            /\ eval_k' = eval_k + 1
            /\ bpc' = bpc
    /\ UNCHANGED <<n_samples, batch_i, sample_j, updates, total_loss,
                   valid_samples, loss, sample_threw, epoch_loss, num_batches,
                   ok_sum, ok_batches>>

\* line 435: evaluate returns
EvaluateReturn ==
    /\ bpc = "evaluate"
    /\ eval_k = n_samples
    /\ bpc' = "evaluated"
    /\ UNCHANGED <<n_samples, batch_i, sample_j, updates, total_loss,
                   valid_samples, loss, sample_threw, epoch_loss, num_batches,
                   ok_sum, ok_batches, correct, eval_k>>

\* ------------------------------------------------------------------------
\* Activation and the gradient helpers of SimpleCNN
\* ------------------------------------------------------------------------
\* vector entries in thousandths; the NaN of a float is FNaN
FNaN == 0 - INT_MAX
FloatVals == {-3000, -600, 0, 600, 3000}

\* the max_norm train_batch passes to clip_gradients
CLIP_NORM == 1000
\* max_norm / norm in hundred-thousandths
SCALE_ONE == 100000
\* softmax: exponentials and results in millionths
EXP_ONE == 1000000
EXP_CLAMP == 80000
\* 1e-7f, rounded up to the smallest positive value of the scale
SUM_FLOOR == 1

\* the sequences of length n over S
SeqsOf(S, n) == [1..n -> S]

Abs(v) == IF v < 0 THEN 0 - v ELSE v

\* std::max(0.0f, x): the comparison 0 < NaN is false, so NaN gives 0
Relu(x) == [i \in 1..Len(x) |-> IF x[i] = FNaN THEN 0 ELSE Max(0, x[i])]

ApplyReluGradient_AtZeroToo(upstream_grad, activation_output) ==
    [i \in 1..Len(upstream_grad) |->
        IF activation_output[i] >= 0 THEN upstream_grad[i] ELSE 0]

ApplyReluGradient(upstream_grad, activation_output) ==
    [i \in 1..Len(upstream_grad) |->
        IF activation_output[i] > 0 THEN upstream_grad[i] ELSE 0]

\* sqrt of the sum of the squares
L2Norm(g) == ISqrt(SumSeq([i \in 1..Len(g) |-> g[i] * g[i]]))

\* grad * scale, rounded toward zero
Scaled(grad, scale) ==
    IF grad < 0 THEN 0 - (((0 - grad) * scale) \div SCALE_ONE)
    ELSE (grad * scale) \div SCALE_ONE

ClipGradients_NoSqrt(gradients, max_norm) ==
    LET norm == SumSeq([i \in 1..Len(gradients) |-> gradients[i] * gradients[i]])
    IN  IF norm > max_norm
        THEN LET scale == (max_norm * SCALE_ONE) \div norm
             IN  [i \in 1..Len(gradients) |-> Scaled(gradients[i], scale)]
        ELSE gradients

ClipGradients(gradients, max_norm) ==
    LET norm == L2Norm(gradients)
    IN  IF norm > max_norm
        THEN LET scale == (max_norm * SCALE_ONE) \div norm
             IN  [i \in 1..Len(gradients) |-> Scaled(gradients[i], scale)]
        ELSE gradients

\* std::exp(a) for a <= 0, in millionths: 2^(a * log2 e), the fraction of
\* the exponent interpolated linearly
ExpQ(a) ==
    LET t == ((0 - a) * 1443) \div 1000
        q == t \div 1000
        f == t % 1000
    IN  IF q > 30 THEN 0
        ELSE ((EXP_ONE * (2000 - f)) \div 2000) \div Pow2(q)

\* floor(e * 10^k / sum), digit by digit
RECURSIVE DivDigits(_, _, _, _)
DivDigits(q, r, sum, k) ==
    IF k = 0 THEN q
    ELSE DivDigits(q * 10 + (r * 10) \div sum, (r * 10) % sum, sum, k - 1)

\* result[i] /= sum, the quotient in millionths
Quotient(e, sum) == DivDigits(e \div sum, e % sum, sum, 6)

Softmax_MaxFromZero(x) ==
    LET max_val == Max(0, MaxSeq(x))
        e == [i \in 1..Len(x) |-> ExpQ(Min(x[i] - max_val, EXP_CLAMP))]
        sum == Max(SumSeq(e), SUM_FLOOR)
    IN  [i \in 1..Len(x) |-> Quotient(e[i], sum)]

Softmax(x) ==
    LET max_val == MaxSeq(x)
        e == [i \in 1..Len(x) |-> ExpQ(Min(x[i] - max_val, EXP_CLAMP))]
        sum == Max(SumSeq(e), SUM_FLOOR)
    IN  [i \in 1..Len(x) |-> Quotient(e[i], sum)]

\* relu_in is the x of relu, vec_in the finite vector handed to
\* apply_relu_gradient and clip_gradients (the gradient) or to softmax (the
\* logits), shift the constant added to the logits
VARIABLES mpc, relu_in, vec_in, shift, activation, mresult, mshifted

mathVars == <<mpc, relu_in, vec_in, shift, activation, mresult, mshifted>>

ShiftVals == {-600, 0, 3000}

\* a caller holding two vectors of one length
MathInit(maxLen) ==
    /\ mpc = "ready"
    /\ \E n \in 1..maxLen :
         /\ relu_in \in SeqsOf(FloatVals \cup {FNaN}, n)
         /\ vec_in \in SeqsOf(FloatVals, n)
    /\ shift = 0
    /\ activation = <<>>
    /\ mresult = <<>>
    /\ mshifted = <<>>

CallRelu ==
    /\ mpc = "ready"
    /\ activation' = Relu(relu_in)
    /\ mpc' = "relu"
    /\ UNCHANGED <<relu_in, vec_in, shift, mresult, mshifted>>

CallApplyReluGradient ==
    /\ mpc = "relu"
    /\ mresult' = ApplyReluGradient(vec_in, activation)
    /\ mpc' = "relu_gradient"
    /\ UNCHANGED <<relu_in, vec_in, shift, activation, mshifted>>

CallClipGradients ==
    /\ mpc = "ready"
    /\ mresult' = ClipGradients(vec_in, CLIP_NORM)
    /\ mpc' = "clip"
    /\ UNCHANGED <<relu_in, vec_in, shift, activation, mshifted>>

\* softmax on the logits and on the logits with c added to every element
CallSoftmax(c) ==
    /\ mpc = "ready"
    /\ shift' = c
    /\ mresult' = Softmax(vec_in)
    /\ mshifted' = Softmax([i \in 1..Len(vec_in) |-> vec_in[i] + c])
    /\ mpc' = "softmax"
    /\ UNCHANGED <<relu_in, vec_in, activation>>

\* ------------------------------------------------------------------------
\* Parser and TLSRecordToCsv: from the lines of tshark to a CSV row
\* ------------------------------------------------------------------------
\* one line of tshark output: ip.src, ip.dst, frame.len and
\* tls.handshake.type (<<>> for an empty or missing field)
TsharkLine(src, dst, len_tok, type_tok) ==
    [ip_src |-> src, ip_dst |-> dst, len_tok |-> len_tok, type_tok |-> type_tok]

\* a Client Hello and a Server Hello between A and B, data both ways, a
\* Certificate from a third address, a data line without a length, and a
\* Client Hello whose length is not a number
TsharkLines ==
    { TsharkLine("A", "B", <<"1", "0", "0">>, <<"1">>),
      TsharkLine("B", "A", <<"2", "0", "0">>, <<"2">>),
      TsharkLine("A", "B", <<"5", "0">>, <<>>),
      TsharkLine("B", "A", <<"6", "0">>, <<>>),
      TsharkLine("C", "A", <<"7", "0">>, <<"1", "1">>),
      TsharkLine("A", "B", <<>>, <<>>),
      TsharkLine("B", "A", <<"x">>, <<"1">>) }

\* lines 172-190: the numeric fields; a field that is empty keeps the
\* default -1 of TLSRecord, a std::stoi that throws drops the line
ParseNumeric(line) ==
    LET len == IF line.len_tok # <<>> THEN Stoi(line.len_tok)
               ELSE [ok |-> TRUE, val |-> -1]
        typ == IF line.type_tok # <<>> THEN Stoi(line.type_tok)
               ELSE [ok |-> TRUE, val |-> -1]
    IN  [ok |-> len.ok /\ typ.ok,
         frame_length |-> len.val,
         tls_handshake_type |-> typ.val]

\* a direction from the client address alone
InferDirection_ClientOnly(ip_src, ip_dst, type, client, server) ==
    IF type = 1
    THEN [keep |-> TRUE, tls_direction |-> 0, client |-> ip_src, server |-> ip_dst]
    ELSE IF type = 2
    THEN [keep |-> TRUE, tls_direction |-> 1, client |-> ip_dst, server |-> ip_src]
    ELSE IF client # "" \/ server # ""
    THEN [keep |-> TRUE, tls_direction |-> IF client = ip_src THEN 0 ELSE 1,
          client |-> client, server |-> server]
    ELSE [keep |-> TRUE, tls_direction |-> -1, client |-> client, server |-> server]

\* lines 195-225: the direction of one record and the addresses learned;
\* keep is FALSE where the loop continues without pushing the record
InferDirection(ip_src, ip_dst, type, client, server) ==
    IF type = 1
    THEN [keep |-> TRUE, tls_direction |-> 0, client |-> ip_src, server |-> ip_dst]
    ELSE IF type = 2
    THEN [keep |-> TRUE, tls_direction |-> 1, client |-> ip_dst, server |-> ip_src]
    ELSE IF client # "" \/ server # ""
    THEN LET tls_direction_temp1 == IF client = ip_src THEN 0 ELSE 1
             tls_direction_temp2 == IF server = ip_src THEN 1 ELSE 0
         IN  [keep |-> tls_direction_temp1 = tls_direction_temp2,
              tls_direction |-> tls_direction_temp1,
              client |-> client, server |-> server]
    ELSE [keep |-> TRUE, tls_direction |-> -1, client |-> client, server |-> server]

\* operator<< of a non-negative int
RECURSIVE ToDigits(_)
ToDigits(n) ==
    LET d == <<"0", "1", "2", "3", "4", "5", "6", "7", "8", "9">>[(n % 10) + 1]
    IN  IF n < 10 THEN <<d>> ELSE ToDigits(n \div 10) \o <<d>>

\* TLSRecordToCsv lines 192-219: size_direction of every record that has a
\* length and a direction, joined by ';'
RECURSIVE ConvertFrom(_, _)
ConvertFrom(records, first) ==
    IF records = <<>> THEN <<>>
    ELSE LET r == Head(records)
         IN  IF r.frame_length > 0 /\ r.tls_direction >= 0
             THEN (IF first THEN <<>> ELSE <<";">>)
                  \o ToDigits(r.frame_length) \o <<"_">> \o ToDigits(r.tls_direction)
                  \o ConvertFrom(Tail(records), FALSE)
             ELSE ConvertFrom(Tail(records), first)

ConvertTlsRecordsToFeatureString(records) == ConvertFrom(records, TRUE)

\* pcap holds the lines tshark printed for the file being parsed and pcaps
\* those of the files parsed before; neither is program state.
\* tls_records_map is kept in the order the files were parsed, feature_rows
\* is the text of the rows written.
VARIABLES ppc, client_ip, server_ip, single_pcap_tls_records,
          tls_records_map, feature_rows, pcap, pcaps, lines_read

parserVars == <<ppc, client_ip, server_ip, single_pcap_tls_records,
                tls_records_map, feature_rows, pcap, pcaps, lines_read>>

\* a Parser before its first file
ParserInit ==
    /\ ppc = "idle"
    /\ client_ip = ""
    /\ server_ip = ""
    /\ single_pcap_tls_records = <<>>
    /\ tls_records_map = <<>>
    /\ feature_rows = <<>>
    /\ pcap = <<>>
    /\ pcaps = <<>>
    /\ lines_read = 0

\* parse_single_file up to the read loop (lines 99-140): a file that cannot
\* be read is left before anything is cleared, a popen that fails after
OpenPcap(outcome, maxRecords) ==
    /\ ppc = "idle"
    /\ lines_read < maxRecords
    /\ IF outcome = "no_access"
       THEN UNCHANGED <<ppc, client_ip, server_ip, single_pcap_tls_records>>
       ELSE /\ single_pcap_tls_records' = <<>>
            /\ server_ip' = ""
            /\ client_ip' = ""
            /\ ppc' = IF outcome = "popen_failed" THEN "idle" ELSE "parse"
    /\ pcap' = <<>>
    /\ UNCHANGED <<tls_records_map, feature_rows, pcaps, lines_read>>

\* one pass of the read loop (lines 142-229)
ParseLine(line, maxRecords) ==
    /\ ppc = "parse"
    /\ lines_read < maxRecords
    /\ lines_read' = lines_read + 1
    /\ pcap' = Append(pcap, line)
    /\ LET num == ParseNumeric(line)
           d   == InferDirection(line.ip_src, line.ip_dst,
                                 num.tls_handshake_type, client_ip, server_ip)
       IN  IF ~num.ok
           THEN UNCHANGED <<client_ip, server_ip, single_pcap_tls_records>>
           ELSE /\ client_ip' = d.client
                /\ server_ip' = d.server
                /\ single_pcap_tls_records' =
                     IF d.keep
                     THEN Append(single_pcap_tls_records,
                                 [ip_src |-> line.ip_src,
                                  ip_dst |-> line.ip_dst,
                                  frame_length |-> num.frame_length,
                                  tls_handshake_type |-> num.tls_handshake_type,
                                  tls_direction |-> d.tls_direction])
                     ELSE single_pcap_tls_records
    /\ UNCHANGED <<ppc, tls_records_map, feature_rows, pcaps>>

\* lines 231-255: the end of the output; the records of the file are stored
\* unless there are none
ClosePcap ==
    /\ ppc = "parse"
    /\ ppc' = "idle"
    /\ IF single_pcap_tls_records # <<>>
       THEN /\ tls_records_map' = Append(tls_records_map, single_pcap_tls_records)
            /\ pcaps' = Append(pcaps, pcap)
       ELSE UNCHANGED <<tls_records_map, pcaps>>
    /\ pcap' = <<>>
    /\ UNCHANGED <<client_ip, server_ip, single_pcap_tls_records,
                   feature_rows, lines_read>>

\* the rows generate_csv writes for the files from k on
RECURSIVE RowsFrom(_, _)
RowsFrom(map, k) ==
    IF k > Len(map) THEN <<>>
    ELSE LET feature_str == ConvertTlsRecordsToFeatureString(map[k])
         IN  (IF feature_str # <<>> THEN <<[file |-> k, text |-> feature_str]>>
              ELSE <<>>) \o RowsFrom(map, k + 1)

\* TLSRecordToCsv::generate_csv lines 59-84: one row per stored file whose
\* feature string is not empty
GenerateCsv ==
    /\ ppc = "idle"
    /\ ppc' = "written"
    /\ feature_rows' = RowsFrom(tls_records_map, 1)
    /\ UNCHANGED <<client_ip, server_ip, single_pcap_tls_records,
                   tls_records_map, pcap, pcaps, lines_read>>

\* ------------------------------------------------------------------------
\* FCLayer, ConvLayer and the dimensions of SimpleCNN
\* ------------------------------------------------------------------------
\* the values the weights, the inputs and the upstream gradients are
\* drawn from (thousandths), and the learning rates (millionths)
WeightVals == {-500, 1000}
InputVals == {0, 2000}
GradientVals == {-1000, 1000}
LayerRates == {LEARNING_RATE, 500 * LEARNING_RATE}

\* a float product of two values in thousandths
MulQ(a, b) == (a * b) \div 1000

\* learning_rate * x, in thousandths
LrTimes(lr, x) == (lr * x) \div 1000000

\* sum of f[o] for o in 1..n
RECURSIVE SumTo(_, _)
SumTo(f, n) == IF n = 0 THEN 0 ELSE SumTo(f, n - 1) + f[n]

\* FCLayer(input_size, output_size): the weights are drawn from a normal
\* distribution, the biases are zero
NewFCLayer(input_size, output_size, weights) ==
    [input_size |-> input_size, output_size |-> output_size,
     weights |-> weights,
     biases |-> [o \in 1..output_size |-> 0],
     input |-> <<>>, output |-> <<>>]

\* FCLayer::forward: the input is cached and output = biases + weights * input
FcForward(layer, input) ==
    [layer EXCEPT
       !.input = input,
       !.output = [o \in 1..layer.output_size |->
                     layer.biases[o]
                     + SumTo([i \in 1..layer.input_size |->
                                MulQ(layer.weights[o][i], input[i])],
                             layer.input_size)]]

\* FCLayer::backward: in the loop over o and i the weight [o][i] is
\* updated first and the updated value is then added into input_gradient[i]
FcBackward(layer, gradient, lr) ==
    LET updated == [o \in 1..layer.output_size |->
                      [i \in 1..layer.input_size |->
                         layer.weights[o][i]
                         - MulQ(LrTimes(lr, gradient[o]), layer.input[i])]]
    IN  [layer |-> [layer EXCEPT
                      !.weights = updated,
                      !.biases = [o \in 1..layer.output_size |->
                                    layer.biases[o] - LrTimes(lr, gradient[o])]],
         input_gradient |->
             [i \in 1..layer.input_size |->
                SumTo([o \in 1..layer.output_size |-> MulQ(gradient[o], updated[o][i])],
                      layer.output_size)]]

\* the / and % of C++ on ints, which truncate toward zero (b > 0)
TruncDiv(a, b) == IF a >= 0 THEN a \div b ELSE 0 - ((0 - a) \div b)
TruncRem(a, b) == a - b * TruncDiv(a, b)

\* ConvLayer::forward lines 107-111: output_width, and whether
\* output.resize gets a negative count (converted to size_t it is beyond
\* max_size and resize throws)
ConvOutputWidth(input_width, kernel_size, stride, padding) ==
    TruncDiv(input_width + 2 * padding - kernel_size, stride) + 1

\* ConvLayer::forward lines 121-134: the taps (ow, k) that read input
\* position w
ForwardTaps(c, w) ==
    {t \in (0..(c.output_width - 1)) \X (0..(c.kernel_size - 1)) :
        /\ t[1] * c.stride - c.padding + t[2] = w
        /\ w >= 0 /\ w < c.input_width}

\* the taps of every k, whatever is left of the division
BackwardTaps_NoRemainderTest(c, iw) ==
    {t \in (0..(c.output_width - 1)) \X (0..(c.kernel_size - 1)) :
        LET ow == TruncDiv(iw + c.padding - t[2], c.stride)
        IN  ow >= 0 /\ ow < c.output_width /\ t[1] = ow}

\* ConvLayer::backward lines 193-215: the taps (ow, k) whose term
\* gradient[ow] * weights[k] is added into g for input position iw
BackwardTaps(c, iw) ==
    {t \in (0..(c.output_width - 1)) \X (0..(c.kernel_size - 1)) :
        LET ow == TruncDiv(iw + c.padding - t[2], c.stride)
        IN  /\ TruncRem(iw + c.padding - t[2], c.stride) = 0
            /\ ow >= 0 /\ ow < c.output_width
            /\ t[1] = ow}

\* conv1(1, 4, 5, 2): output channels, kernel size and stride; the padding
\* is the default of the constructor
CONV1_OUT_CHANNELS == 4
CONV1_KERNEL == 5
CONV1_STRIDE == 2
CONV_PADDING_DEFAULT == 0

\* the input size fc1 is constructed with, from the wrong offset
Fc1InputSize_OffsetFive(input_dim) == TruncDiv(input_dim - 5, 2) * 4

\* the input size fc1 is constructed with (SimpleCNN line 316)
Fc1InputSize(input_dim) == TruncDiv(input_dim - 4, 2) * 4

\* get_feature_dim for a corpus whose longest row has L records
FeatureDim(L) == L * PACKET_FEATURES + STATS_FEATURES

\* ypc is the position of the caller of the layer; kind tells which of the
\* three objects the behaviour is about.  fc is the FCLayer, fc_forward the
\* layer as forward left it, fc_gradient and fc_rate the arguments of
\* backward and fc_input_gradient its result.  conv holds the shape and the
\* widths of a ConvLayer and conv_added, per input position, the taps
\* backward added.  cnn holds the lengths met in one forward and backward
\* of SimpleCNN.
VARIABLES ypc, kind, fc, fc_forward, fc_gradient, fc_rate, fc_input_gradient,
          conv, conv_added, cnn

layerVars == <<ypc, kind, fc, fc_forward, fc_gradient, fc_rate,
               fc_input_gradient, conv, conv_added, cnn>>

NoLayer == [input_size |-> 0, output_size |-> 0, weights |-> <<>>,
            biases |-> <<>>, input |-> <<>>, output |-> <<>>]
NoConv == [kernel_size |-> 0, stride |-> 0, padding |-> 0,
           input_width |-> 0, output_width |-> 0]
NoCnn == [input_dim |-> 0, fc1_input_size |-> 0, conv1_output |-> 0,
          fc1_reads |-> 0, fc1_grad |-> 0, conv1_indexes |-> 0]

\* a freshly constructed FCLayer of up to maxLen inputs and outputs
FcInit(maxLen) ==
    /\ ypc = "new"
    /\ kind = "fc"
    /\ \E input_size \in 1..maxLen, output_size \in 1..maxLen :
         \E weights \in [1..output_size -> [1..input_size -> WeightVals]] :
            fc = NewFCLayer(input_size, output_size, weights)
    /\ fc_forward = NoLayer
    /\ fc_gradient = <<>>
    /\ fc_rate = 0
    /\ fc_input_gradient = <<>>
    /\ conv = NoConv
    /\ conv_added = <<>>
    /\ cnn = NoCnn

\* a ConvLayer of any stride >= 1, padding >= 0 and kernel size up to
\* maxKernel
ConvInit(maxKernel) ==
    /\ ypc = "new"
    /\ kind = "conv"
    /\ \E kernel_size \in 1..maxKernel, stride \in 1..maxKernel,
          padding \in 0..(maxKernel - 1) :
         conv = [kernel_size |-> kernel_size, stride |-> stride,
                 padding |-> padding, input_width |-> 0, output_width |-> 0]
    /\ conv_added = <<>>
    /\ fc = NoLayer
    /\ fc_forward = NoLayer
    /\ fc_gradient = <<>>
    /\ fc_rate = 0
    /\ fc_input_gradient = <<>>
    /\ cnn = NoCnn

\* SimpleCNN(input_dim, num_labels) for the feature dimension of a corpus
\* whose longest row has up to maxSequence records
CnnInit(maxSequence) ==
    /\ ypc = "new"
    /\ kind = "cnn"
    /\ \E L \in 0..maxSequence :
         cnn = [NoCnn EXCEPT !.input_dim = FeatureDim(L),
                             !.fc1_input_size = Fc1InputSize(FeatureDim(L))]
    /\ fc = NoLayer
    /\ fc_forward = NoLayer
    /\ fc_gradient = <<>>
    /\ fc_rate = 0
    /\ fc_input_gradient = <<>>
    /\ conv = NoConv
    /\ conv_added = <<>>

\* FCLayer::forward(input)
CallFcForward(input) ==
    /\ ypc = "new" /\ kind = "fc"
    /\ fc' = FcForward(fc, input)
    /\ fc_forward' = fc'
    /\ ypc' = "forwarded"
    /\ UNCHANGED <<kind, fc_gradient, fc_rate, fc_input_gradient,
                   conv, conv_added, cnn>>

\* FCLayer::backward(gradient, learning_rate)
CallFcBackward(gradient, lr) ==
    /\ ypc = "forwarded" /\ kind = "fc"
    /\ fc' = FcBackward(fc, gradient, lr).layer
    /\ fc_input_gradient' = FcBackward(fc, gradient, lr).input_gradient
    /\ fc_gradient' = gradient
    /\ fc_rate' = lr
    /\ ypc' = "backwarded"
    /\ UNCHANGED <<kind, fc_forward, conv, conv_added, cnn>>

\* ConvLayer::forward on an input of input_width values per channel
CallConvForward(input_width) ==
    /\ ypc = "new" /\ kind = "conv"
    /\ LET output_width == ConvOutputWidth(input_width, conv.kernel_size,
                                           conv.stride, conv.padding)
       IN  IF output_width < 0
           THEN /\ ypc' = "threw"
                /\ conv' = [conv EXCEPT !.input_width = input_width]
           ELSE /\ ypc' = "forwarded"
                /\ conv' = [conv EXCEPT !.input_width = input_width,
                                        !.output_width = output_width]
    /\ UNCHANGED <<kind, fc, fc_forward, fc_gradient, fc_rate,
                   fc_input_gradient, conv_added, cnn>>

\* ConvLayer::backward, the input gradient
CallConvBackward ==
    /\ ypc = "forwarded" /\ kind = "conv"
    /\ conv_added' = [iw \in 0..(conv.input_width - 1) |-> BackwardTaps(conv, iw)]
    /\ ypc' = "backwarded"
    /\ UNCHANGED <<kind, fc, fc_forward, fc_gradient, fc_rate,
                   fc_input_gradient, conv, cnn>>

\* SimpleCNN::forward on a vector of input_dim values: the length of the
\* output of conv1 and the number of its values fc1 reads
CnnForward ==
    /\ ypc = "new" /\ kind = "cnn"
    /\ LET output_width == ConvOutputWidth(cnn.input_dim, CONV1_KERNEL,
                                           CONV1_STRIDE, CONV_PADDING_DEFAULT)
       IN  cnn' = [cnn EXCEPT !.conv1_output = CONV1_OUT_CHANNELS * output_width,
                              !.fc1_reads = cnn.fc1_input_size]
    /\ ypc' = "forwarded"
    /\ UNCHANGED <<kind, fc, fc_forward, fc_gradient, fc_rate,
                   fc_input_gradient, conv, conv_added>>

\* SimpleCNN::train_batch lines 403-410: the length of the gradient
\* fc1.backward returns (clip_gradients and apply_relu_gradient keep it) and
\* the number of gradient values conv1.backward indexes (oc * output_width
\* + ow with output_width = output.size() / output_channels)
CnnBackward ==
    /\ ypc = "forwarded" /\ kind = "cnn"
    /\ cnn' = [cnn EXCEPT !.fc1_grad = cnn.fc1_input_size,
                          !.conv1_indexes =
                              CONV1_OUT_CHANNELS
                              * (cnn.conv1_output \div CONV1_OUT_CHANNELS)]
    /\ ypc' = "backwarded"
    /\ UNCHANGED <<kind, fc, fc_forward, fc_gradient, fc_rate,
                   fc_input_gradient, conv, conv_added>>

\* ------------------------------------------------------------------------
\* The samples of an epoch and the caches of SimpleCNN
\* ------------------------------------------------------------------------
\* the Samples of the training set are numbered 1..n.  The orders
\* std::shuffle leaves them in: as they were, reversed, rotated by one
ShufflePool(n) ==
    {[i \in 1..n |-> i], [i \in 1..n |-> n + 1 - i], [i \in 1..n |-> (i % n) + 1]}

\* the batch cut from the start of the vector, whatever i is
CutBatch_FromStart(shuffled, i_, batch_end) == SubSeq(shuffled, 1, batch_end - i_)

\* trainCNN line 85: batch.assign(begin + i, begin + batch_end)
CutBatch(shuffled, i_, batch_end) == SubSeq(shuffled, i_ + 1, batch_end)

\* what forward stores for backward, in the order it stores it: input and
\* output of conv1, conv1_output, the input of fc1, fc1_output, the input of
\* fc2
CacheNames == <<"conv1", "conv1_output", "fc1", "fc1_output", "fc2">>

\* a forward that leaves fc1_output as it was
ForwardCaches_KeepsFc1Output(held, call, written) ==
    [c \in 1..Len(CacheNames) |->
        IF c <= written /\ CacheNames[c] # "fc1_output" THEN call ELSE held[c]]

\* SimpleCNN::forward lines 338-350: the caches after call number call has
\* stored the first written of them (all of them unless it threw on the way)
ForwardCaches(held, call, written) ==
    [c \in 1..Len(CacheNames) |-> IF c <= written THEN call ELSE held[c]]

\* the number of caches a call of forward has stored when it is left: all
\* of them when it returns, any number short of that when it throws
WrittenBy(threw) ==
    IF threw THEN 0..(Len(CacheNames) - 1) ELSE {Len(CacheNames)}

\* train_batch lines 399-410: fc2.backward reads the input of fc2,
\* apply_relu_gradient fc1_output, fc1.backward the input of fc1,
\* apply_relu_gradient conv1_output and conv1.backward its input and output
BackwardReads(held) == [c \in 1..Len(CacheNames) |-> held[c]]

\* shuffled_samples and batch are the vectors of trainCNN, caches tells for
\* every cache the forward call that wrote it, forward_calls counts the
\* calls of forward, and passes records for every pass of the loop of
\* train_batch the Sample, the batch, the call, the parameters it met
\* (seen) and left (applied) and what its backward read.
VARIABLES shuffled_samples, batch, caches, forward_calls, passes

epochVars == <<shuffled_samples, batch, caches, forward_calls, passes>>

\* trainCNN lines 75-78 on a training set of n samples; the caches are those
\* of the calls before this epoch
EpochInit(n) ==
    /\ shuffled_samples \in ShufflePool(n)
    /\ batch = <<>>
    /\ caches = [c \in 1..Len(CacheNames) |-> 0]
    /\ forward_calls = 0
    /\ passes = <<>>

\* trainCNN lines 83-85
EpochEnterTrainBatch ==
    /\ EnterTrainBatch
    /\ batch' = CutBatch(shuffled_samples, batch_i, BatchEnd(batch_i))
    /\ UNCHANGED <<shuffled_samples, caches, forward_calls, passes>>

\* one pass of the loop of train_batch on the next Sample of batch; its
\* forward has stored the first written caches
EpochTrainSample(out, written) ==
    /\ TrainSample(out)
    /\ sample_j - batch_i < Len(batch)
    /\ LET call    == forward_calls + 1
           held    == ForwardCaches(caches, call, written)
           trained == ~out.threw /\ ~SkipsSample(ComputeLoss(out.prob))
       IN  /\ forward_calls' = call
           /\ caches' = held
           /\ passes' = Append(passes,
                               [sample  |-> batch[sample_j - batch_i + 1],
                                batch_no |-> batch_i \div BATCH_SIZE,
                                call    |-> call,
                                seen    |-> updates,
                                applied |-> updates',
                                trained |-> trained,
                                read    |-> IF trained THEN BackwardReads(held)
                                            ELSE <<>>])
    /\ UNCHANGED <<shuffled_samples, batch>>

\* one pass of the loop of evaluate: its forward stores the caches too
EpochEvaluateSample(threw, hit, written) ==
    /\ EvaluateSample(threw, hit)
    /\ forward_calls' = forward_calls + 1
    /\ caches' = ForwardCaches(caches, forward_calls + 1, written)
    /\ UNCHANGED <<shuffled_samples, batch, passes>>

\* ------------------------------------------------------------------------
\* predictCNN: the feature vector of the file to classify
\* ------------------------------------------------------------------------
\* the divisor of line 41
PREDICT_SIZE_DIVISOR == 1500

\* static_cast<float>(size) / 1500.0f, in thousandths
PredictNormalizedSize(size) == TruncDiv(size * 1000, PREDICT_SIZE_DIVISOR)

\* the loop of load_features_from_file (lines 32-46): a pair without '_' is
\* ignored, and std::stoi is not guarded, so a field that is no number ends
\* the function with an exception
RECURSIVE PredictLoop(_, _)
PredictLoop(pairs, features) ==
    IF pairs = <<>> THEN [threw |-> FALSE, features |-> features]
    ELSE LET pair      == Head(pairs)
             delim_pos == Find(pair, "_")
             size      == Stoi(SubSeq(pair, 1, delim_pos - 1))
             direction == Stoi(Tail_(pair, delim_pos))
         IN  IF delim_pos = 0 THEN PredictLoop(Tail(pairs), features)
             ELSE IF ~size.ok \/ ~direction.ok
             THEN [threw |-> TRUE, features |-> features]
             ELSE PredictLoop(Tail(pairs),
                              features \o <<PredictNormalizedSize(size.val),
                                            1000 * direction.val>>)

\* load_features_from_file on a file whose first line is line: the pairs,
\* then zeros up to feature_dim when there are fewer values than that
LoadFeaturesFromFile(line, feature_dim) ==
    LET r == PredictLoop(GetlineAll(line, ";"), <<>>)
    IN  IF r.threw THEN r
        ELSE [threw |-> FALSE,
              features |-> r.features \o Zeros(feature_dim - Len(r.features))]

\* the record tokens of the files handed to the predictor
PredictTokens == {TokSmall, TokLarge, TokBadSize}

\* the first lines of the files: up to n tokens joined by ';'
PredictLines(n) ==
    {JoinTokens(ts) : ts \in UNION {[1..k -> PredictTokens] : k \in 0..n}}

\* qpc is the position of main, feature_file the first line of the file,
\* feature_dim the dimension taken from the training
\* corpus, features the vector handed to forward
VARIABLES qpc, feature_file, feature_dim, features

predictVars == <<qpc, feature_file, feature_dim, features>>

\* main at line 83: a corpus whose longest row has up to maxLen records and
\* a file of up to maxLen tokens
PredictInit(maxLen) ==
    /\ qpc = "load"
    /\ feature_file \in PredictLines(maxLen)
    /\ feature_dim \in {FeatureDim(L) : L \in 0..maxLen}
    /\ features = <<>>

\* line 83: load_features_from_file, the file opened or not; its
\* exceptions end main at line 114
CallLoadFeatures(opened) ==
    /\ qpc = "load"
    /\ IF ~opened
       THEN /\ qpc' = "exit1"
            /\ UNCHANGED features
       ELSE LET r == LoadFeaturesFromFile(feature_file, feature_dim)
            IN  /\ qpc' = IF r.threw THEN "exit1" ELSE "loaded"
                /\ features' = IF r.threw THEN features ELSE r.features
    /\ UNCHANGED <<feature_file, feature_dim>>

\* line 86: the vector goes to forward
CallPredictForward ==
    /\ qpc = "loaded"
    /\ qpc' = "predicted"
    /\ UNCHANGED <<feature_file, feature_dim, features>>

\* ------------------------------------------------------------------------
\* Capture: start and stop of tcpdump
\* ------------------------------------------------------------------------
\* the value of tcpdump_pid when there is no child
NO_PID == -1

\* what waitpid(tcpdump_pid, &status, WNOHANG) returns half a second after
\* the fork: 0 (the child runs), the pid (it has ended), -1 (an error)
WaitpidOutcomes == {"running", "ended", "error"}

\* capturing and tcpdump_pid are the fields of the object.  forked is the
\* set of pids fork has returned to this object, alive those of them whose
\* process has not ended, and last_call the last call made on the object
\* with what it returned; the three are not fields of the object.
VARIABLES capturing, tcpdump_pid, forked, alive, last_call

captureVars == <<capturing, tcpdump_pid, forked, alive, last_call>>

\* Capture(interface, filter)
CaptureInit ==
    /\ capturing = FALSE
    /\ tcpdump_pid = NO_PID
    /\ forked = {}
    /\ alive = {}
    /\ last_call = [op |-> "none", returned |-> FALSE,
                    was_capturing |-> FALSE, did_fork |-> FALSE]

\* start(host, port) under the mutex: dirs_ok is the outcome of
\* ensure_dir_exists, fork_ok that of fork (the child is given the next
\* pid), result that of waitpid
Start(dirs_ok, fork_ok, result, maxForks) ==
    /\ capturing \/ Cardinality(forked) < maxForks
    /\ LET pid == Cardinality(forked) + 1
       IN  IF capturing
           THEN /\ last_call' = [op |-> "start", returned |-> FALSE,
                                 was_capturing |-> TRUE, did_fork |-> FALSE]
                /\ UNCHANGED <<capturing, tcpdump_pid, forked, alive>>
           ELSE IF ~dirs_ok
           THEN /\ last_call' = [op |-> "start", returned |-> FALSE,
                                 was_capturing |-> FALSE, did_fork |-> FALSE]
                /\ UNCHANGED <<capturing, tcpdump_pid, forked, alive>>
           ELSE IF ~fork_ok
           THEN /\ tcpdump_pid' = -1
                /\ last_call' = [op |-> "start", returned |-> FALSE,
                                 was_capturing |-> FALSE, did_fork |-> FALSE]
                /\ UNCHANGED <<capturing, forked, alive>>
           ELSE /\ forked' = forked \cup {pid}
                /\ alive' = IF result = "ended" THEN alive ELSE alive \cup {pid}
                /\ capturing' = (result = "running")
                /\ tcpdump_pid' = IF result = "ended" THEN -1 ELSE pid
                /\ last_call' = [op |-> "start", returned |-> result = "running",
                                 was_capturing |-> FALSE, did_fork |-> TRUE]

\* stop() under the mutex: term_ok and kill_ok are the outcomes of
\* kill(SIGTERM) and of the kill(SIGKILL) that follows a failed SIGTERM
Stop(term_ok, kill_ok) ==
    IF ~capturing \/ tcpdump_pid < 0
    THEN /\ last_call' = [op |-> "stop", returned |-> TRUE,
                          was_capturing |-> capturing, did_fork |-> FALSE]
         /\ UNCHANGED <<capturing, tcpdump_pid, forked, alive>>
    ELSE IF ~term_ok /\ ~kill_ok
    THEN /\ last_call' = [op |-> "stop", returned |-> FALSE,
                          was_capturing |-> capturing, did_fork |-> FALSE]
         /\ UNCHANGED <<capturing, tcpdump_pid, forked, alive>>
    ELSE /\ tcpdump_pid' = -1
         /\ capturing' = FALSE
         /\ alive' = alive \ {tcpdump_pid}
         /\ last_call' = [op |-> "stop", returned |-> TRUE,
                          was_capturing |-> capturing, did_fork |-> FALSE]
         /\ UNCHANGED forked

\* the child: execvp fails and it exits (lines 118-129), or tcpdump ends
ChildEnds(pid) ==
    /\ pid \in alive
    /\ alive' = alive \ {pid}
    /\ UNCHANGED <<capturing, tcpdump_pid, forked, last_call>>

\* ------------------------------------------------------------------------
\* Specifications
\* ------------------------------------------------------------------------
DataIdle ==
    /\ dpc = "done"
    /\ csv = <<>>
    /\ samples = <<>>
    /\ num_labels = 0
    /\ max_sequence_length = 0
    /\ train_samples = <<>>
    /\ test_samples = <<>>

LoadIdle ==
    /\ lpc = "exit0"
    /\ caller = "predict"
    /\ lfile = "absent"
    /\ ldims = [input_dim |-> 10, num_labels |-> 2]
    /\ lmodel = "none"
    /\ lthrew = FALSE

TrainIdle ==
    /\ tpc = "exit0"
    /\ model = 1
    /\ epoch = 0
    /\ learning_rate = LEARNING_RATE
    /\ best_test_acc = 0
    /\ patience = 0
    /\ train_acc = -1
    /\ test_acc = -1
    /\ ckpt = "absent"
    /\ saved_model = 0
    /\ rpc = "done"
    /\ seen = "none"
    /\ loaded = 0

BatchIdle ==
    /\ bpc = "evaluated"
    /\ n_samples = 0
    /\ batch_i = 0
    /\ sample_j = 0
    /\ updates = 0
    /\ total_loss = 0
    /\ valid_samples = 0
    /\ loss = 0
    /\ sample_threw = FALSE
    /\ epoch_loss = 0
    /\ num_batches = 0
    /\ ok_sum = 0
    /\ ok_batches = 0
    /\ correct = 0
    /\ eval_k = 0

MathIdle ==
    /\ mpc = "idle"
    /\ relu_in = <<>>
    /\ vec_in = <<>>
    /\ shift = 0
    /\ activation = <<>>
    /\ mresult = <<>>
    /\ mshifted = <<>>

ParserIdle ==
    /\ ppc = "written"
    /\ client_ip = ""
    /\ server_ip = ""
    /\ single_pcap_tls_records = <<>>
    /\ tls_records_map = <<>>
    /\ feature_rows = <<>>
    /\ pcap = <<>>
    /\ pcaps = <<>>
    /\ lines_read = 0

LayerIdle ==
    /\ ypc = "backwarded"
    /\ kind = "none"
    /\ fc = NoLayer
    /\ fc_forward = NoLayer
    /\ fc_gradient = <<>>
    /\ fc_rate = 0
    /\ fc_input_gradient = <<>>
    /\ conv = NoConv
    /\ conv_added = <<>>
    /\ cnn = NoCnn

EpochIdle ==
    /\ shuffled_samples = <<>>
    /\ batch = <<>>
    /\ caches = <<>>
    /\ forward_calls = 0
    /\ passes = <<>>

PredictIdle ==
    /\ qpc = "predicted"
    /\ feature_file = <<>>
    /\ feature_dim = 0
    /\ features = <<>>

CaptureIdle ==
    /\ capturing = FALSE
    /\ tcpdump_pid = NO_PID
    /\ forked = {}
    /\ alive = {}
    /\ last_call = [op |-> "idle", returned |-> FALSE,
                    was_capturing |-> FALSE, did_fork |-> FALSE]

vars == <<dataVars, loadVars, trainVars, batchVars, mathVars, parserVars, layerVars, epochVars, predictVars, captureVars>>

\* the feature pipeline on CSV files of up to MaxRows lines of LinePool
InitData == DataInit /\ LoadIdle /\ TrainIdle /\ BatchIdle /\ MathIdle /\ ParserIdle /\ LayerIdle /\ EpochIdle /\ PredictIdle /\ CaptureIdle

NextData ==
    \/ (\E opened \in BOOLEAN : OpenCsv(opened)) /\ UNCHANGED <<loadVars, trainVars, batchVars, mathVars, parserVars, layerVars, epochVars, predictVars, captureVars>>
    \/ (\E line \in LinePool : ReadLine(line, MaxRows)) /\ UNCHANGED <<loadVars, trainVars, batchVars, mathVars, parserVars, layerVars, epochVars, predictVars, captureVars>>
    \/ EndOfFile /\ UNCHANGED <<loadVars, trainVars, batchVars, mathVars, parserVars, layerVars, epochVars, predictVars, captureVars>>
    \/ NormalizeFeatures /\ UNCHANGED <<loadVars, trainVars, batchVars, mathVars, parserVars, layerVars, epochVars, predictVars, captureVars>>
    \/ ShuffleAndSplit /\ UNCHANGED <<loadVars, trainVars, batchVars, mathVars, parserVars, layerVars, epochVars, predictVars, captureVars>>

SpecData == InitData /\ [][NextData]_vars

\* the feature pipeline on CSV files of up to MaxSplitRows lines of
\* SplitLinePool
NextSplit ==
    \/ (\E opened \in BOOLEAN : OpenCsv(opened)) /\ UNCHANGED <<loadVars, trainVars, batchVars, mathVars, parserVars, layerVars, epochVars, predictVars, captureVars>>
    \/ (\E line \in SplitLinePool : ReadLine(line, MaxSplitRows)) /\ UNCHANGED <<loadVars, trainVars, batchVars, mathVars, parserVars, layerVars, epochVars, predictVars, captureVars>>
    \/ EndOfFile /\ UNCHANGED <<loadVars, trainVars, batchVars, mathVars, parserVars, layerVars, epochVars, predictVars, captureVars>>
    \/ NormalizeFeatures /\ UNCHANGED <<loadVars, trainVars, batchVars, mathVars, parserVars, layerVars, epochVars, predictVars, captureVars>>
    \/ ShuffleAndSplit /\ UNCHANGED <<loadVars, trainVars, batchVars, mathVars, parserVars, layerVars, epochVars, predictVars, captureVars>>

SpecSplit == InitData /\ [][NextSplit]_vars

\* the callers of load_model
InitLoad == LoadInit /\ DataIdle /\ TrainIdle /\ BatchIdle /\ MathIdle /\ ParserIdle /\ LayerIdle /\ EpochIdle /\ PredictIdle /\ CaptureIdle

NextLoad ==
    \/ TrainerLoad /\ UNCHANGED <<dataVars, trainVars, batchVars, mathVars, parserVars, layerVars, epochVars, predictVars, captureVars>>
    \/ PredictorLoad /\ UNCHANGED <<dataVars, trainVars, batchVars, mathVars, parserVars, layerVars, epochVars, predictVars, captureVars>>
    \/ PredictorFinish /\ UNCHANGED <<dataVars, trainVars, batchVars, mathVars, parserVars, layerVars, epochVars, predictVars, captureVars>>

SpecLoad == InitLoad /\ [][NextLoad]_vars

\* the trainer's epoch loop with a concurrent reader of the checkpoint
InitTrain == TrainInit /\ DataIdle /\ LoadIdle /\ BatchIdle /\ MathIdle /\ ParserIdle /\ LayerIdle /\ EpochIdle /\ PredictIdle /\ CaptureIdle

NextTrain ==
    \/ TrainEpoch /\ UNCHANGED <<dataVars, loadVars, batchVars, mathVars, parserVars, layerVars, epochVars, predictVars, captureVars>>
    \/ Evaluate /\ UNCHANGED <<dataVars, loadVars, batchVars, mathVars, parserVars, layerVars, epochVars, predictVars, captureVars>>
    \/ (\E opened \in BOOLEAN : SaveOpen(opened)) /\ UNCHANGED <<dataVars, loadVars, batchVars, mathVars, parserVars, layerVars, epochVars, predictVars, captureVars>>
    \/ SaveClose /\ UNCHANGED <<dataVars, loadVars, batchVars, mathVars, parserVars, layerVars, epochVars, predictVars, captureVars>>
    \/ StopCheck /\ UNCHANGED <<dataVars, loadVars, batchVars, mathVars, parserVars, layerVars, epochVars, predictVars, captureVars>>
    \/ DecayAndNext /\ UNCHANGED <<dataVars, loadVars, batchVars, mathVars, parserVars, layerVars, epochVars, predictVars, captureVars>>
    \/ Summary /\ UNCHANGED <<dataVars, loadVars, batchVars, mathVars, parserVars, layerVars, epochVars, predictVars, captureVars>>
    \/ ReaderLoad /\ UNCHANGED <<dataVars, loadVars, batchVars, mathVars, parserVars, layerVars, epochVars, predictVars, captureVars>>

Spec == InitTrain /\ [][NextTrain]_vars

\* the trainer alone.  trainCNN is one sequential process that nothing
\* blocks: whenever it has a next statement to run, it runs it, so a step
\* that stays enabled is eventually taken.
NextTrainer ==
    \/ TrainEpoch /\ UNCHANGED <<dataVars, loadVars, batchVars, mathVars, parserVars, layerVars, epochVars, predictVars, captureVars>>
    \/ Evaluate /\ UNCHANGED <<dataVars, loadVars, batchVars, mathVars, parserVars, layerVars, epochVars, predictVars, captureVars>>
    \/ (\E opened \in BOOLEAN : SaveOpen(opened)) /\ UNCHANGED <<dataVars, loadVars, batchVars, mathVars, parserVars, layerVars, epochVars, predictVars, captureVars>>
    \/ SaveClose /\ UNCHANGED <<dataVars, loadVars, batchVars, mathVars, parserVars, layerVars, epochVars, predictVars, captureVars>>
    \/ StopCheck /\ UNCHANGED <<dataVars, loadVars, batchVars, mathVars, parserVars, layerVars, epochVars, predictVars, captureVars>>
    \/ DecayAndNext /\ UNCHANGED <<dataVars, loadVars, batchVars, mathVars, parserVars, layerVars, epochVars, predictVars, captureVars>>
    \/ Summary /\ UNCHANGED <<dataVars, loadVars, batchVars, mathVars, parserVars, layerVars, epochVars, predictVars, captureVars>>

SpecTrainer == InitTrain /\ [][NextTrainer]_vars /\ WF_vars(NextTrainer)

\* one epoch of the trainer on a training set of up to MaxTrain samples,
\* every sample with every outcome of forward
InitBatch ==
    /\ \E n \in 0..MaxTrain : BatchInit(n)
    /\ DataIdle /\ LoadIdle /\ TrainIdle /\ MathIdle /\ ParserIdle /\ LayerIdle /\ EpochIdle /\ PredictIdle /\ CaptureIdle

NextBatch ==
    \/ EnterTrainBatch /\ UNCHANGED <<dataVars, loadVars, trainVars, mathVars, parserVars, layerVars, epochVars, predictVars, captureVars>>
    \/ (\E out \in ForwardOutcomes : TrainSample(out)) /\ UNCHANGED <<dataVars, loadVars, trainVars, mathVars, parserVars, layerVars, epochVars, predictVars, captureVars>>
    \/ LeaveTrainBatch /\ UNCHANGED <<dataVars, loadVars, trainVars, mathVars, parserVars, layerVars, epochVars, predictVars, captureVars>>
    \/ EpochLoss /\ UNCHANGED <<dataVars, loadVars, trainVars, mathVars, parserVars, layerVars, epochVars, predictVars, captureVars>>
    \/ (\E threw, hit \in BOOLEAN : EvaluateSample(threw, hit)) /\ UNCHANGED <<dataVars, loadVars, trainVars, mathVars, parserVars, layerVars, epochVars, predictVars, captureVars>>
    \/ EvaluateReturn /\ UNCHANGED <<dataVars, loadVars, trainVars, mathVars, parserVars, layerVars, epochVars, predictVars, captureVars>>

SpecBatch == InitBatch /\ [][NextBatch]_vars

\* the activation and gradient helpers on vectors of up to MaxVecLen
\* entries
InitMath ==
    /\ MathInit(MaxVecLen)
    /\ DataIdle /\ LoadIdle /\ TrainIdle /\ BatchIdle /\ ParserIdle /\ LayerIdle /\ EpochIdle /\ PredictIdle /\ CaptureIdle

NextMath ==
    \/ CallRelu /\ UNCHANGED <<dataVars, loadVars, trainVars, batchVars, parserVars, layerVars, epochVars, predictVars, captureVars>>
    \/ CallApplyReluGradient /\ UNCHANGED <<dataVars, loadVars, trainVars, batchVars, parserVars, layerVars, epochVars, predictVars, captureVars>>
    \/ CallClipGradients /\ UNCHANGED <<dataVars, loadVars, trainVars, batchVars, parserVars, layerVars, epochVars, predictVars, captureVars>>
    \/ (\E c \in ShiftVals : CallSoftmax(c)) /\ UNCHANGED <<dataVars, loadVars, trainVars, batchVars, parserVars, layerVars, epochVars, predictVars, captureVars>>

SpecMath == InitMath /\ [][NextMath]_vars

\* Parser on pcap files that hold up to MaxRecords lines of TsharkLines
\* together, then generate_csv
InitParser ==
    /\ ParserInit
    /\ DataIdle /\ LoadIdle /\ TrainIdle /\ BatchIdle /\ MathIdle /\ LayerIdle /\ EpochIdle /\ PredictIdle /\ CaptureIdle

NextParser ==
    \/ (\E outcome \in {"no_access", "popen_failed", "ok"} : OpenPcap(outcome, MaxRecords)) /\ UNCHANGED <<dataVars, loadVars, trainVars, batchVars, mathVars, layerVars, epochVars, predictVars, captureVars>>
    \/ (\E line \in TsharkLines : ParseLine(line, MaxRecords)) /\ UNCHANGED <<dataVars, loadVars, trainVars, batchVars, mathVars, layerVars, epochVars, predictVars, captureVars>>
    \/ ClosePcap /\ UNCHANGED <<dataVars, loadVars, trainVars, batchVars, mathVars, layerVars, epochVars, predictVars, captureVars>>
    \/ GenerateCsv /\ UNCHANGED <<dataVars, loadVars, trainVars, batchVars, mathVars, layerVars, epochVars, predictVars, captureVars>>

SpecParser == InitParser /\ [][NextParser]_vars

\* the lines of CSV files whose labels are any integers: zero, a larger
\* label, and two negative ones (std::stoi accepts a sign)
LabelLinePool ==
    {<<"0", ",">> \o TokSmall,
     <<"2", ",">> \o JoinTokens(<<TokLarge, TokSmall>>),
     <<"-", "1", ",">> \o TokSmall,
     <<"-", "3", ",">> \o TokLarge}

\* the feature pipeline on CSV files of up to MaxRows lines of LabelLinePool
NextLabels ==
    \/ (\E opened \in BOOLEAN : OpenCsv(opened)) /\ UNCHANGED <<loadVars, trainVars, batchVars, mathVars, parserVars, layerVars, epochVars, predictVars, captureVars>>
    \/ (\E line \in LabelLinePool : ReadLine(line, MaxRows)) /\ UNCHANGED <<loadVars, trainVars, batchVars, mathVars, parserVars, layerVars, epochVars, predictVars, captureVars>>
    \/ EndOfFile /\ UNCHANGED <<loadVars, trainVars, batchVars, mathVars, parserVars, layerVars, epochVars, predictVars, captureVars>>
    \/ NormalizeFeatures /\ UNCHANGED <<loadVars, trainVars, batchVars, mathVars, parserVars, layerVars, epochVars, predictVars, captureVars>>
    \/ ShuffleAndSplit /\ UNCHANGED <<loadVars, trainVars, batchVars, mathVars, parserVars, layerVars, epochVars, predictVars, captureVars>>

SpecLabels == InitData /\ [][NextLabels]_vars

\* one forward and one backward of an FCLayer of up to MaxVecLen inputs and
\* outputs, of a ConvLayer of a shape up to MaxKernel on an input of up to
\* 2 * MaxKernel values, or of a SimpleCNN for up to MaxSequence records
InitLayers ==
    /\ (FcInit(MaxVecLen) \/ ConvInit(MaxKernel) \/ CnnInit(MaxSequence))
    /\ DataIdle /\ LoadIdle /\ TrainIdle /\ BatchIdle /\ MathIdle /\ ParserIdle /\ EpochIdle /\ PredictIdle /\ CaptureIdle

NextLayers ==
    \/ (\E input \in SeqsOf(InputVals, fc.input_size) : CallFcForward(input)) /\ UNCHANGED <<dataVars, loadVars, trainVars, batchVars, mathVars, parserVars, epochVars, predictVars, captureVars>>
    \/ (\E gradient \in SeqsOf(GradientVals, fc.output_size), lr \in LayerRates : CallFcBackward(gradient, lr)) /\ UNCHANGED <<dataVars, loadVars, trainVars, batchVars, mathVars, parserVars, epochVars, predictVars, captureVars>>
    \/ (\E input_width \in 0..(2 * MaxKernel) : CallConvForward(input_width)) /\ UNCHANGED <<dataVars, loadVars, trainVars, batchVars, mathVars, parserVars, epochVars, predictVars, captureVars>>
    \/ CallConvBackward /\ UNCHANGED <<dataVars, loadVars, trainVars, batchVars, mathVars, parserVars, epochVars, predictVars, captureVars>>
    \/ CnnForward /\ UNCHANGED <<dataVars, loadVars, trainVars, batchVars, mathVars, parserVars, epochVars, predictVars, captureVars>>
    \/ CnnBackward /\ UNCHANGED <<dataVars, loadVars, trainVars, batchVars, mathVars, parserVars, epochVars, predictVars, captureVars>>

SpecLayers == InitLayers /\ [][NextLayers]_vars

\* one epoch on a training set of up to MaxEpoch numbered samples: the
\* batches, the passes of train_batch and the caches of the network
InitEpoch ==
    /\ \E n \in 0..MaxEpoch : BatchInit(n) /\ EpochInit(n)
    /\ DataIdle /\ LoadIdle /\ TrainIdle /\ MathIdle /\ ParserIdle /\ LayerIdle /\ PredictIdle /\ CaptureIdle

NextEpoch ==
    \/ EpochEnterTrainBatch /\ UNCHANGED <<dataVars, loadVars, trainVars, mathVars, parserVars, layerVars, predictVars, captureVars>>
    \/ (\E out \in ForwardOutcomes : \E written \in WrittenBy(out.threw) : EpochTrainSample(out, written)) /\ UNCHANGED <<dataVars, loadVars, trainVars, mathVars, parserVars, layerVars, predictVars, captureVars>>
    \/ LeaveTrainBatch /\ UNCHANGED <<dataVars, loadVars, trainVars, mathVars, parserVars, layerVars, epochVars, predictVars, captureVars>>
    \/ EpochLoss /\ UNCHANGED <<dataVars, loadVars, trainVars, mathVars, parserVars, layerVars, epochVars, predictVars, captureVars>>
    \/ (\E threw, hit \in BOOLEAN : \E written \in WrittenBy(threw) : EpochEvaluateSample(threw, hit, written)) /\ UNCHANGED <<dataVars, loadVars, trainVars, mathVars, parserVars, layerVars, predictVars, captureVars>>
    \/ EvaluateReturn /\ UNCHANGED <<dataVars, loadVars, trainVars, mathVars, parserVars, layerVars, epochVars, predictVars, captureVars>>

SpecEpoch == InitEpoch /\ [][NextEpoch]_vars

\* the predictor on files of up to MaxRecords record tokens, for corpora
\* whose longest row has up to MaxRecords records
InitPredict ==
    /\ PredictInit(MaxRecords)
    /\ DataIdle /\ LoadIdle /\ TrainIdle /\ BatchIdle /\ MathIdle /\ ParserIdle /\ LayerIdle /\ EpochIdle /\ CaptureIdle

NextPredict ==
    \/ (\E opened \in BOOLEAN : CallLoadFeatures(opened)) /\ UNCHANGED <<dataVars, loadVars, trainVars, batchVars, mathVars, parserVars, layerVars, epochVars, captureVars>>
    \/ CallPredictForward /\ UNCHANGED <<dataVars, loadVars, trainVars, batchVars, mathVars, parserVars, layerVars, epochVars, captureVars>>

SpecPredict == InitPredict /\ [][NextPredict]_vars

\* SimpleCNN::evaluate line 435, in percent: static_cast<float>(correct) /
\* samples.size() is 0.0f / 0 for an empty sample set, which is NaN
EvaluateResult(correct_, size) ==
    IF size = 0 THEN -1 ELSE (100 * correct_) \div size

\* any sequence of start and stop on one Capture, with every outcome of the
\* system calls, up to MaxForks children
InitCapture ==
    /\ CaptureInit
    /\ DataIdle /\ LoadIdle /\ TrainIdle /\ BatchIdle /\ MathIdle /\ ParserIdle /\ LayerIdle /\ EpochIdle /\ PredictIdle

NextCapture ==
    \/ (\E dirs_ok, fork_ok \in BOOLEAN, result \in WaitpidOutcomes : Start(dirs_ok, fork_ok, result, MaxForks)) /\ UNCHANGED <<dataVars, loadVars, trainVars, batchVars, mathVars, parserVars, layerVars, epochVars, predictVars>>
    \/ (\E term_ok, kill_ok \in BOOLEAN : Stop(term_ok, kill_ok)) /\ UNCHANGED <<dataVars, loadVars, trainVars, batchVars, mathVars, parserVars, layerVars, epochVars, predictVars>>
    \/ (\E pid \in forked : ChildEnds(pid)) /\ UNCHANGED <<dataVars, loadVars, trainVars, batchVars, mathVars, parserVars, layerVars, epochVars, predictVars>>

SpecCapture == InitCapture /\ [][NextCapture]_vars

\* ------------------------------------------------------------------------
\* Properties
\* ------------------------------------------------------------------------
AllSamples == train_samples \o test_samples

\* the tokens of the feature field of a line, and those of them that
\* hold two parseable integers around the first '_'
TokensOf(line) == GetlineAll(SplitLine(line).feature_str, ";")

SizeField(tok) == SubSeq(tok, 1, Find(tok, "_") - 1)

DirectionField(tok) == Tail_(tok, Find(tok, "_"))

ValidToken(tok) ==
    /\ Find(tok, "_") # 0
    /\ Stoi(SizeField(tok)).ok
    /\ Stoi(DirectionField(tok)).ok

ValidTokensOf(line) == SelectSeq(TokensOf(line), ValidToken)

\* the (size, direction) pairs the valid tokens of a line stand for
PairsOf(line) ==
    LET v == ValidTokensOf(line)
    IN  [i \in 1..(2 * Len(v)) |->
           IF i % 2 = 1 THEN LogNorm(Stoi(SizeField(v[(i + 1) \div 2])).val)
           ELSE 1000 * Stoi(DirectionField(v[i \div 2])).val]

LabelsPresent == {AllSamples[i].label : i \in 1..Len(AllSamples)}

LabelCount(l) == Cardinality({i \in 1..Len(AllSamples) : AllSamples[i].label = l})

\* C1: once the pipeline has finished, every Sample of the train and of
\* the test set has exactly get_feature_dim() = max_sequence_length*2 + 6
\* features, also a Sample of a row without a valid record.
C1_FeatureLength ==
    dpc = "done" =>
        \A i \in 1..Len(AllSamples) :
            Len(AllSamples[i].features) = GetFeatureDim

\* C2: once the pipeline has finished, every label of the corpus has the
\* same number of Samples (train and test together), the largest number a
\* label had when the rows were loaded.
C2_ClassesBalanced ==
    dpc = "done" =>
        \A l \in LabelsPresent :
            \A m \in LabelsPresent : LabelCount(l) >= LabelCount(m)

\* C3: load_model on a file that save_model has written returns a network
\* with the parameters the saved network had.
C3_RoundTrip ==
    [][(rpc = "idle" /\ rpc' = "done" /\ ckpt = "tag" /\ saved_model # 0)
         => loaded' = saved_model]_vars

\* C4: shuffle_and_split puts every Sample of the corpus into exactly one
\* of the two sets: the test set has a fifth of the Samples (rounded
\* down), the train set is the start of the shuffled corpus and the test
\* set the rest of it.
C4_SplitPartition ==
    [][(dpc = "split" /\ dpc' = "done") =>
         LET all == train_samples' \o test_samples'
             n   == Len(samples)
         IN  /\ Len(all) = n
             /\ \A i \in 1..n :
                  Cardinality({j \in 1..Len(all) : all[j] = samples[i]}) = 1
             /\ Len(test_samples') = n \div 5
             /\ Len(train_samples') = n - n \div 5
             /\ train_samples' = SubSeq(samples', 1, Len(train_samples'))
             /\ test_samples' = SubSeq(samples', Len(train_samples') + 1, n)]_vars

C4_Witness ==
    /\ dpc = "done"
    /\ Len(train_samples) >= 4
    /\ Len(test_samples) >= 1
    /\ \E i, j \in 1..Len(samples) : i < j /\ samples[i].row > samples[j].row

\* C5: a row without a valid record yields no Sample in either set.
C5_EmptyRowsDropped ==
    dpc = "done" =>
        \A i \in 1..Len(AllSamples) :
            ValidTokensOf(csv[AllSamples[i].row]) # <<>>

C7_LoadNeverFails == ~lthrew

C9_NeverHalfWritten ==
    /\ ckpt \in {"absent", "tag"}
    /\ rpc = "done" => seen \in {"absent", "tag"}

\* C10: the epoch loop is left only when the patience counter has reached
\* its threshold after an evaluation, when both accuracies of one
\* evaluation are above the target, or when the epoch budget is used up.
C10_ThreeExits ==
    [][(tpc \in Running /\ tpc' \notin Running) =>
         \/ tpc = "stop_check" /\ patience >= max_patience
         \/ tpc = "stop_check" /\ GT(test_acc, TARGET_ACC)
                               /\ GT(train_acc, TARGET_ACC)
         \/ tpc = "decay" /\ epoch' = EPOCHS]_vars

C13_EpochLossOverValid ==
    bpc \in {"evaluate", "evaluated", "exit1"}
    => epoch_loss = (IF ok_batches > 0 THEN ok_sum \div ok_batches ELSE 0)

\* C14: once the epoch loop runs, an exception raised while one sample is
\* processed, in train_batch or in evaluate, stays inside that sample's
\* processing: the pass moves on to the next sample and the run never
\* ends through the catch of main.
C14_ExceptionsContained ==
    /\ bpc # "exit1"
    /\ (bpc = "train_batch" /\ sample_threw) => sample_j > batch_i

\* C15: the trainer aborts only when the feature CSV cannot be opened: an
\* abort never comes after a line of an opened CSV has been read, whatever
\* the line holds.
C15_AbortOnlyOnOpenFailure == dpc = "aborted" => csv = <<>>

\* the initial rate after k decays
RECURSIVE DecayTimes(_, _)
DecayTimes(lr, k) == IF k = 0 THEN lr ELSE DecayTimes(Decayed(lr), k - 1)

\* the decays that lie before epoch e: one at the end of each of the
\* epochs 50, 100, ... below e
RateInEpoch(e) ==
    DecayTimes(LEARNING_RATE, IF e = 0 THEN 0 ELSE (e - 1) \div DECAY_EVERY)

\* C16: the learning rate follows the epoch number alone, whatever the
\* evaluations returned: in epoch e it is the initial rate decayed once for
\* every DECAY_EVERY-th epoch completed before e, floored at the minimum;
\* it stays between the minimum and the initial rate, never increases, and
\* changes only by one decay at the end of a DECAY_EVERY-th epoch.
C16_LearningRateSchedule ==
    /\ [](learning_rate = RateInEpoch(epoch))
    /\ [](MIN_LEARNING_RATE <= learning_rate /\ learning_rate <= LEARNING_RATE)
    /\ [][learning_rate' <= learning_rate]_vars
    /\ [][learning_rate' # learning_rate
          => /\ learning_rate' = Decayed(learning_rate)
             /\ epoch > 0 /\ epoch % DECAY_EVERY = 0
             /\ epoch' = epoch + 1]_vars

\* the epoch after the fifth decay, reached with the rate decayed five times
C16_Witness ==
    /\ tpc = "epoch"
    /\ epoch = 5 * DECAY_EVERY + 1
    /\ learning_rate = DecayTimes(LEARNING_RATE, 5)
    /\ learning_rate < LEARNING_RATE

\* C17: for a = relu(x) and an upstream gradient g of the same length,
\* apply_relu_gradient(g, a) is 0 at every position where a is 0 and g
\* at every other position.
C17_ReluGradientMask ==
    mpc = "relu_gradient"
    => /\ Len(mresult) = Len(vec_in)
       /\ \A i \in 1..Len(vec_in) :
            mresult[i] = (IF activation[i] = 0 THEN 0 ELSE vec_in[i])

\* a vector with a zero and a positive activation, met by a gradient that
\* is non-zero at both positions
C17_Witness ==
    /\ mpc = "relu_gradient"
    /\ \E i, j \in 1..Len(vec_in) :
         /\ activation[i] = 0 /\ vec_in[i] # 0 /\ mresult[i] = 0
         /\ activation[j] > 0 /\ vec_in[j] # 0 /\ mresult[j] = vec_in[j]

\* C18: clip_gradients(g, cap) leaves g unchanged when its L2 norm is at
\* most cap; otherwise the result is g scaled by one positive factor (same
\* signs, same proportions) and its L2 norm is cap, to the resolution of
\* the arithmetic.  After the call the norm is at most cap.
C18_ClipGradients ==
    mpc = "clip"
    => LET n == Len(vec_in)
       IN  /\ Len(mresult) = n
           /\ L2Norm(mresult) <= CLIP_NORM
           /\ IF L2Norm(vec_in) > CLIP_NORM
              THEN /\ L2Norm(mresult) >= CLIP_NORM - (n + 2)
                   /\ \A i \in 1..n : mresult[i] * vec_in[i] >= 0
                   /\ \A i, j \in 1..n :
                        Abs(mresult[i] * vec_in[j] - mresult[j] * vec_in[i])
                            <= Abs(vec_in[i]) + Abs(vec_in[j])
              ELSE mresult = vec_in

\* a gradient of two non-zero entries of different size and sign whose norm
\* is above the cap, clipped
C18_Witness ==
    /\ mpc = "clip"
    /\ L2Norm(vec_in) > CLIP_NORM
    /\ mresult # vec_in
    /\ \E i, j \in 1..Len(vec_in) :
         /\ vec_in[i] < 0 /\ vec_in[j] > 0
         /\ Abs(vec_in[i]) # Abs(vec_in[j])

\* C19: for a finite vector x the elements of softmax(x) sum to 1 within
\* 1e-5 (10 millionths), and softmax of x with a constant added to every
\* element equals softmax(x).
C19_Softmax ==
    mpc = "softmax"
    => /\ Abs(SumSeq(mresult) - EXP_ONE) <= 10
       /\ \A i \in 1..Len(mresult) : mresult[i] >= 0
       /\ mshifted = mresult

\* logits that differ, shifted by a non-zero constant
C19_Witness ==
    /\ mpc = "softmax"
    /\ shift # 0
    /\ \E i, j \in 1..Len(vec_in) : vec_in[i] < vec_in[j] /\ mresult[i] < mresult[j]

\* C20: for a row with k valid records and corpus maximum L the features
\* of its Sample are the k (normalized size, direction) pairs in record
\* order, then L - k pairs of zeros, then the six statistics computed from
\* the k records: the statistics are the last six values and the padding
\* leaves the first 2k values as they were.
C20_FeatureLayout ==
    dpc = "done" =>
        \A i \in 1..Len(AllSamples) :
            LET pairs == PairsOf(csv[AllSamples[i].row])
                k     == Len(pairs) \div PACKET_FEATURES
                L     == max_sequence_length
                sizes == [j \in 1..k |-> pairs[2 * j - 1]]
                directions == [j \in 1..k |-> pairs[2 * j]]
                stats == AddStatisticalFeatures(<<>>, sizes, directions)
            IN  /\ Len(stats) = STATS_FEATURES
                /\ AllSamples[i].features = pairs \o Zeros(2 * (L - k)) \o stats

\* the last line before line i of a file that was parsed and is a Client
\* Hello or a Server Hello, 0 when there is none
LastHello(lines, i) ==
    LET S == {j \in 1..(i - 1) :
                /\ ParseNumeric(lines[j]).ok
                /\ ParseNumeric(lines[j]).tls_handshake_type \in {1, 2}}
    IN  IF S = {} THEN 0 ELSE CHOOSE j \in S : \A m \in S : m <= j

\* the direction the rule gives line i of a file, -1 when it stays
\* undetermined
RuleDirection(lines, i) ==
    LET type == ParseNumeric(lines[i]).tls_handshake_type
        h    == LastHello(lines, i)
        hello == lines[h]
        client == IF ParseNumeric(hello).tls_handshake_type = 1
                  THEN hello.ip_src ELSE hello.ip_dst
        server == IF ParseNumeric(hello).tls_handshake_type = 1
                  THEN hello.ip_dst ELSE hello.ip_src
        src == lines[i].ip_src
    IN  IF type = 1 THEN 0
        ELSE IF type = 2 THEN 1
        ELSE IF h = 0 THEN -1
        ELSE IF src = client /\ src # server THEN 0
        ELSE IF src = server /\ src # client THEN 1
        ELSE -1

\* the lines of a file that the rule lets into the row, as size_direction
RECURSIVE RuleTokens(_, _)
RuleTokens(lines, i) ==
    IF i > Len(lines) THEN <<>>
    ELSE LET num == ParseNumeric(lines[i])
         IN  (IF num.ok /\ num.frame_length > 0 /\ RuleDirection(lines, i) >= 0
              THEN <<ToDigits(num.frame_length) \o <<"_">>
                     \o ToDigits(RuleDirection(lines, i))>>
              ELSE <<>>) \o RuleTokens(lines, i + 1)

\* C21: the row written for a pcap file holds, in order, exactly the
\* records of that file whose direction the rule determines: 0 for a Client
\* Hello, 1 for a Server Hello, otherwise by the source address against the
\* client and server addresses of the last Hello before it in the same
\* file; a record with no Hello before it in its file, or whose source is
\* neither or both of the two addresses, is not in the row.
C21_DirectionRule ==
    ppc = "written" =>
        /\ \A r \in 1..Len(feature_rows) :
             feature_rows[r].text = JoinTokens(RuleTokens(pcaps[feature_rows[r].file], 1))
        /\ \A k \in 1..Len(pcaps) :
             RuleTokens(pcaps[k], 1) # <<>>
             => \E r \in 1..Len(feature_rows) : feature_rows[r].file = k

\* two files: the first has a Hello and then a data line, the second has
\* the same data line alone; the data line is in the row of the first file
\* and the second file, whose record stays undetermined, has no row
C21_Witness ==
    /\ ppc = "written"
    /\ Len(pcaps) = 2
    /\ Len(pcaps[1]) = 2
    /\ Len(RuleTokens(pcaps[1], 1)) = 2
    /\ pcaps[2] = <<pcaps[1][2]>>
    /\ ParseNumeric(pcaps[2][1]).frame_length > 0
    /\ Len(feature_rows) = 1

\* C22: every Sample has 0 <= label < num_labels, so output[label] in
\* compute_loss is inside the output vector, whatever integers the CSV
\* holds as labels
C22_LabelInRange ==
    \A i \in 1..Len(samples) :
        /\ 0 <= samples[i].label
        /\ samples[i].label < num_labels

\* C23: after forward(in) with weights W and biases b, backward(dOut, lr)
\* leaves the weights W - lr * (dOut (x) in) and the biases b - lr * dOut and
\* returns W^T * dOut computed with the weights W the forward pass used
C23_FcBackward ==
    (kind = "fc" /\ ypc = "backwarded") =>
        LET W == fc_forward.weights
            b == fc_forward.biases
        IN  /\ \A o \in 1..fc.output_size : \A i \in 1..fc.input_size :
                 fc.weights[o][i] =
                     W[o][i] - MulQ(LrTimes(fc_rate, fc_gradient[o]), fc_forward.input[i])
            /\ \A o \in 1..fc.output_size :
                 fc.biases[o] = b[o] - LrTimes(fc_rate, fc_gradient[o])
            /\ \A i \in 1..fc.input_size :
                 fc_input_gradient[i] =
                     SumTo([o \in 1..fc.output_size |-> MulQ(fc_gradient[o], W[o][i])],
                           fc.output_size)

\* C24: for every input position p the taps backward adds into the input
\* gradient at p are exactly the pairs (outputPos, tap) inside the output and
\* the kernel with outputPos * stride - padding + tap = p, which are the
\* taps through which forward read p
C24_BackwardTaps ==
    (kind = "conv" /\ ypc = "backwarded") =>
        \A p \in 0..(conv.input_width - 1) :
            /\ conv_added[p] =
                 {t \in (0..(conv.output_width - 1)) \X (0..(conv.kernel_size - 1)) :
                     t[1] * conv.stride - conv.padding + t[2] = p}
            /\ conv_added[p] = ForwardTaps(conv, p)

\* a position whose p + padding - tap is negative and not a multiple of the
\* stride for one tap, and which is read through another tap
C24_Witness ==
    /\ kind = "conv" /\ ypc = "backwarded"
    /\ conv.stride >= 2
    /\ \E p \in 0..(conv.input_width - 1) :
         /\ conv_added[p] # {}
         /\ \E k \in 0..(conv.kernel_size - 1) :
              /\ p + conv.padding - k < 0
              /\ (k - p - conv.padding) % conv.stride # 0

\* C27: for d = 2 * L + 6 the output of conv1 has as many values as fc1
\* has inputs, so fc1 reads all of it and the gradient fc1 returns has the
\* length conv1.backward indexes
C27_Conv1FeedsFc1 ==
    (kind = "cnn" /\ ypc # "new") =>
        /\ cnn.conv1_output = CONV1_OUT_CHANNELS * (TruncDiv(cnn.input_dim - 5, 2) + 1)
        /\ cnn.conv1_output = cnn.fc1_input_size
        /\ cnn.fc1_reads = cnn.conv1_output
        /\ (ypc = "backwarded" => cnn.fc1_grad = cnn.conv1_indexes)

\* the smallest dimension, d = 6, after a forward and a backward
C27_Witness ==
    /\ kind = "cnn" /\ ypc = "backwarded"
    /\ cnn.input_dim = STATS_FEATURES
    /\ cnn.fc1_grad = 4

\* the passes of batch b
PassesOf(b) == {k \in 1..Len(passes) : passes[k].batch_no = b}

\* C25: when the batch loop of an epoch has ended, every Sample of the
\* training set was in exactly one mini-batch, every mini-batch but the last
\* had BATCH_SIZE samples, and within a batch every Sample met the
\* parameters the Sample before it had left, its own update applied in its
\* own pass
C25_EpochIsPermutation ==
    /\ (bpc \in {"evaluate", "evaluated", "exit1"} /\ Len(shuffled_samples) = n_samples) =>
          LET last == (n_samples - 1) \div BATCH_SIZE
          IN  /\ \A s \in 1..n_samples :
                   Cardinality({k \in 1..Len(passes) : passes[k].sample = s}) = 1
              /\ \A k \in 1..Len(passes) : passes[k].batch_no \in 0..last
              /\ \A b \in 0..(last - 1) : Cardinality(PassesOf(b)) = BATCH_SIZE
              /\ n_samples > 0 => Cardinality(PassesOf(last)) \in 1..BATCH_SIZE
    /\ \A k \in 1..Len(passes) :
          /\ passes[k].applied = passes[k].seen + (IF passes[k].trained THEN 1 ELSE 0)
          /\ (k > 1 /\ passes[k - 1].batch_no = passes[k].batch_no)
                => passes[k].seen = passes[k - 1].applied

\* an epoch of a full batch and a shorter one, shuffled, in which two
\* Samples of the first batch trained one after the other
C25_Witness ==
    /\ bpc = "evaluate"
    /\ Len(passes) = n_samples
    /\ n_samples > BATCH_SIZE
    /\ shuffled_samples[1] # 1
    /\ passes[1].trained /\ passes[2].trained

\* C26: the backward of a pass reads, in every cache, what the forward of
\* the same pass stored: no other call of forward, of train_batch or of
\* evaluate, wrote a cache in between
C26_BackwardReadsOwnForward ==
    \A k \in 1..Len(passes) :
        passes[k].trained =>
            \A c \in 1..Len(CacheNames) : passes[k].read[c] = passes[k].call

\* a trained pass that follows one that did not train, and a forward of
\* evaluate that overwrote the caches after it
C26_Witness ==
    /\ Len(passes) >= 2
    /\ passes[Len(passes)].trained
    /\ ~passes[Len(passes) - 1].trained
    /\ bpc = "evaluate" /\ eval_k > 0
    /\ caches[1] > passes[Len(passes)].call

\* C28: the vector the predictor builds from the records of a file is the
\* one the training pipeline builds from the same records: the same size
\* normalization, (0, 0) padding, the statistics block in the final 6
\* positions, and exactly feature_dim values (stated for files with at
\* least one record and no more records than the longest row of the corpus)
C28_PredictorMatchesTraining ==
    qpc \in {"loaded", "predicted"} =>
        LET L == (feature_dim - STATS_FEATURES) \div PACKET_FEATURES
            k == ParsePacketFeatures(feature_file).current_length
        IN  (1 <= k /\ k <= L) =>
                /\ Len(features) = feature_dim
                /\ features = PadSample(ParsePacketFeatures(feature_file).features, L)

\* C29: for a dataset with at least one Sample the split leaves a test set
\* that is not empty, and the accuracy evaluate returns for the train set
\* and for the test set is a fraction in [0, 1], whatever number of
\* Samples is classified correctly
C29_AccuraciesDefined ==
    (dpc = "done" /\ samples # <<>>) =>
        /\ test_samples # <<>>
        /\ \A c \in 0..Len(train_samples) :
             EvaluateResult(c, Len(train_samples)) \in 0..100
        /\ \A c \in 0..Len(test_samples) :
             EvaluateResult(c, Len(test_samples)) \in 0..100

\* C30: is_capturing() is true only while tcpdump_pid is the pid of a child
\* this object forked; a start() made while capturing returns false and
\* forks nothing; and after a stop() that returned true is_capturing() is
\* false and tcpdump_pid is -1
C30_CaptureState ==
    /\ capturing => tcpdump_pid \in forked
    /\ (last_call.op = "start" /\ last_call.was_capturing)
          => (~last_call.returned /\ ~last_call.did_fork)
    /\ (last_call.op = "stop" /\ last_call.returned)
          => (~capturing /\ tcpdump_pid = -1)

====
